---- MODULE Spec2Model ----
(***************************************************************************)
(* Clinical intake dialogue engine of api.py: the keyword classifier, the  *)
(* sub-group router, the slot extraction cascade with negation handling    *)
(* and urgency flags, the yes/no context resolver, the redirect handler,   *)
(* question selection, the summary generator, and the /predict and         *)
(* /doctor_reply handlers over the session map and the consultations       *)
(* table.                                                                  *)
(*                                                                         *)
(* Text is a TLA+ string; Len, SubSeq and \o act on it character by        *)
(* character, so substring tests and regular-expression searches are       *)
(* computed on the characters of the utterance as the code computes them.  *)
(* Positions are 1-based here and 0-based in the code.                     *)
(***************************************************************************)
EXTENDS Integers, Sequences, FiniteSets, TLC

\* ------------------------------------------------------------------------
\* Python values
\* ------------------------------------------------------------------------

\* Python None (a missing slot, no question, no last-asked slot)
None == "<None>"

Min(S) == CHOOSE x \in S : \A y \in S : x <= y

Max(S) == CHOOSE x \in S : \A y \in S : x >= y

\* A Python dict is an insertion-ordered sequence of <<key, value>> pairs.
DictIndex(d, k) == CHOOSE i \in 1..Len(d) : d[i][1] = k

DictHas(d, k) == \E i \in 1..Len(d) : d[i][1] = k

\* d.get(k, default)
DictGet(d, k, default) == IF DictHas(d, k) THEN d[DictIndex(d, k)][2] ELSE default

\* d[k] = v : an existing key keeps its position, a new key is appended
DictSet(d, k, v) ==
   IF DictHas(d, k) THEN [d EXCEPT ![DictIndex(d, k)] = <<k, v>>]
   ELSE Append(d, <<k, v>>)

DictKeys(d) == {d[i][1] : i \in 1..Len(d)}

\* ------------------------------------------------------------------------
\* Strings and regular expressions (str.lower, `in`, re.search)
\* ------------------------------------------------------------------------

UpperCase == "ABCDEFGHIJKLMNOPQRSTUVWXYZ"

LowerCase == "abcdefghijklmnopqrstuvwxyz"

Digits == {"0", "1", "2", "3", "4", "5", "6", "7", "8", "9"}

\* \s
Whitespace == {" ", "\t", "\n", "\r", "\f"}

CharAt(s, p) == SubSeq(s, p, p)

LowerChar(c) ==
   IF \E i \in 1..26 : CharAt(UpperCase, i) = c
   THEN CharAt(LowerCase, CHOOSE i \in 1..26 : CharAt(UpperCase, i) = c)
   ELSE c

RECURSIVE LowerFrom(_, _)
LowerFrom(s, p) == IF p > Len(s) THEN "" ELSE LowerChar(CharAt(s, p)) \o LowerFrom(s, p + 1)

\* str.lower()
Lower(s) == LowerFrom(s, 1)

\* the literal lit occurs in s at position p
MatchAt(s, p, lit) == p + Len(lit) - 1 <= Len(s) /\ SubSeq(s, p, p + Len(lit) - 1) = lit

\* `lit in s`
Contains(s, lit) == \E p \in 1..(Len(s) - Len(lit) + 1) : MatchAt(s, p, lit)

\* any(k in s for k in keywords)
ContainsAny(s, keywords) == \E i \in 1..Len(keywords) : Contains(s, keywords[i])

NoMatch == [start |-> -1, group |-> ""]

\* re.search(r"(a|b|...)", s): the leftmost position where an alternative
\* matches and, at that position, the first alternative in pattern order.
\* start is match.start() (0-based), group is match.group(0).
Search(s, alts) ==
   LET ps == {p \in 1..Len(s) : \E i \in 1..Len(alts) : MatchAt(s, p, alts[i])}
   IN IF ps = {} THEN NoMatch
      ELSE LET p == Min(ps)
               i == Min({j \in 1..Len(alts) : MatchAt(s, p, alts[j])})
           IN [start |-> p - 1, group |-> alts[i]]

\* \w
IsWordChar(c) ==
   \/ \E i \in 1..26 : CharAt(LowerCase, i) = c \/ CharAt(UpperCase, i) = c
   \/ c \in Digits
   \/ c = "_"

\* \b at the gap before position p of s (p = Len(s) + 1 is the end)
Boundary(s, p) ==
   LET before == p > 1 /\ IsWordChar(CharAt(s, p - 1))
       after == p <= Len(s) /\ IsWordChar(CharAt(s, p))
   IN before # after

\* re.search(r"\b(a|b|...)\b", s) is not None
WordSearch(s, alts) ==
   \E p \in 1..Len(s) : \E i \in 1..Len(alts) :
      /\ MatchAt(s, p, alts[i])
      /\ Boundary(s, p)
      /\ Boundary(s, p + Len(alts[i]))

\* the first position >= p of s whose character is not in class
RECURSIVE SkipClass(_, _, _)
SkipClass(s, p, class) ==
   IF p <= Len(s) /\ CharAt(s, p) \in class THEN SkipClass(s, p + 1, class) ELSE p

\* the position after the first alternative of alts matching at p, or 0
LitEnd(s, p, alts) ==
   IF \E i \in 1..Len(alts) : MatchAt(s, p, alts[i])
   THEN p + Len(alts[Min({i \in 1..Len(alts) : MatchAt(s, p, alts[i])})])
   ELSE 0

\* api.py:108
NegationTokens == << "no", "not", "dont", "without", "denies", "never" >>

\* api.py:107
NegationWindow == 20

\* the test on everything before the match instead of the window
check_negation_AnyDistance(text, index) ==
   WordSearch(SubSeq(text, 1, index), NegationTokens)

\* the test of the window with its result inverted
check_negation_Inverted(text, index) ==
   LET preceding_text == SubSeq(text, Max({0, index - NegationWindow}) + 1, index)
   IN ~WordSearch(preceding_text, NegationTokens)

\* api.py:101-112  check_negation(text, index), index 0-based
check_negation(text, index) ==
   LET preceding_text == SubSeq(text, Max({0, index - NegationWindow}) + 1, index)
   IN WordSearch(preceding_text, NegationTokens)

\* ------------------------------------------------------------------------
\* The keyword routers and the question banks
\* ------------------------------------------------------------------------

\* api.py:145-150  sub-group -> trigger words, in table-definition order
GASTRO_KEYWORDS ==
   <<
      << "STOMACH",
         << "vomit", "nausea", "puke", "throw up", "upper", "ulcer", "gastritis", "tummy" >> >>,
      << "INTESTINES",
         << "diarrhea", "constipation", "poop", "stool", "bloat", "gas", "cramp", "lower" >> >>,
      << "ESOPHAGUS",
         << "heartburn", "acid", "reflux", "chest", "burn", "swallow", "gerd" >> >>,
      << "GENERAL",
         << "poison", "food", "ate", "sushi", "bad food", "flu" >> >>
   >>

\* api.py:152-218  sub-group -> slot -> candidate questions, in definition order
QUESTIONS_GASTROINTESTINAL ==
   <<
      << "STOMACH",
         <<
            << "duration",
               << "How long have you had this stomach pain?",
                  "When did the pain start?",
                  "Has this been hurting for a while or did it just start?" >> >>,
            << "vomiting",
               << "Have you experienced any vomiting or nausea?",
                  "Have you thrown up at all?",
                  "Is there any nausea?" >> >>,
            << "severity",
               << "Does the pain get worse after eating?",
                  "On a scale of 1-10, how severe is it?",
                  "Is the pain sharp or dull?" >> >>
         >> >>,
      << "INTESTINES",
         <<
            << "bowel",
               << "Have you noticed any changes in your bowel movements (diarrhea or constipation)?",
                  "Is everything normal when you go to the bathroom?" >> >>,
            << "bloating",
               << "Is there any bloating or gas?",
                  "Do you feel unusually full or bloated?" >> >>,
            << "cramps",
               << "On a scale of 1-10, how severe are the cramps?",
                  "Are the cramps coming and going?" >> >>
         >> >>,
      << "ESOPHAGUS",
         <<
            << "swallowing",
               << "Do you have difficulty swallowing?",
                  "Does it hurt when you swallow?" >> >>,
            << "heartburn",
               << "Do you experience burning in the chest after meals?",
                  "Does antacid relieve the burning sensation?" >> >>,
            << "regurgitation",
               << "Do you feel any acid or food coming up into your throat?",
                  "Do you have a sour taste in your mouth?" >> >>
         >> >>,
      << "GENERAL",
         <<
            << "food_history",
               << "Did you eat anything unusual or uncooked recently?",
                  "Any recent travel or food exposures?" >> >>,
            << "fever",
               << "Do you have fever or chills?",
                  "Have you noticed any sweating or night fevers?" >> >>
         >> >>,
      << "DEFAULT",
         <<
            << "assessment",
               << "Where exactly is the pain located?",
                  "How long have you felt this way?",
                  "On a scale of 1-10, how severe is it?" >> >>
         >> >>
   >>

\* api.py:220-242  sub-group -> trigger words, in table-definition order
NEURO_KEYWORDS ==
   <<
      << "HEADACHE",
         << "headache", "migraine", "head", "temple", "throb", "pounding", "forehead", "skull",
            "pressure", "ache" >> >>,
      << "DIZZINESS",
         << "dizzy", "spin", "spinning", "lightheaded", "woozy", "balance", "steady", "unsteady",
            "vertigo", "fall" >> >>,
      << "VISION",
         << "vision", "blur", "blurry", "double", "see", "sight", "flash", "spots", "blind", "eye" >> >>,
      << "CONSCIOUSNESS",
         << "faint", "black out", "blackout", "passed out", "unconscious", "seizure", "fit",
            "convulsion", "wake up" >> >>,
      << "GENERAL",
         << "numb", "numbness", "tingle", "tingling", "weak", "weakness", "confused", "confusion",
            "slur", "speak", "stroke", "face" >> >>
   >>

\* api.py:246-337  sub-group -> slot -> candidate questions, in definition order
QUESTIONS_NEUROLOGICAL ==
   <<
      << "HEADACHE",
         <<
            << "location",
               << "Where exactly is the pain? (Front, back, or just one side?)",
                  "Is the pain all over your head or focused in one spot?" >> >>,
            << "duration",
               << "How long have you had this headache?",
                  "When did the pain start?" >> >>,
            << "associated_symptoms",
               << "Do you feel nauseous or sick to your stomach?",
                  "Are you sensitive to bright lights or loud noises right now?" >> >>,
            << "severity",
               << "On a scale of 1-10, how bad is the pain?",
                  "Is it a throbbing pain, a tight band, or a sharp stabbing sensation?" >> >>
         >> >>,
      << "DIZZINESS",
         <<
            << "sensation",
               << "Does the room feel like it is spinning around you (vertigo), or do you just feel lightheaded?",
                  "Do you feel like you might pass out, or are you just unsteady on your feet?" >> >>,
            << "triggers",
               << "Does standing up quickly make it worse?",
                  "Does moving your head or rolling over in bed trigger the dizziness?" >> >>,
            << "ears",
               << "Do you hear any ringing or buzzing in your ears?",
                  "Does your ear feel full or blocked?" >> >>
         >> >>,
      << "VISION",
         <<
            << "clarity",
               << "Is your vision blurry, or are you seeing double of everything?",
                  "Have you lost vision in any part of your eye (like a curtain coming down)?" >> >>,
            << "disturbances",
               << "Are you seeing flashing lights, zig-zag lines, or spots?",
                  "Do bright lights hurt your eyes?" >> >>,
            << "onset",
               << "Did this vision change happen suddenly or gradually?",
                  "Is it affecting one eye or both eyes?" >> >>
         >> >>,
      << "CONSCIOUSNESS",
         <<
            << "event",
               << "Did you actually lose consciousness (black out) or just feel faint?",
                  "Do you remember falling, or did you wake up on the floor?" >> >>,
            << "warning",
               << "Did you feel anything before it happened, like nausea or sweating?",
                  "Were you doing anything specific (like exercising or standing up) when it happened?" >> >>,
            << "aftermath",
               << "Did you feel confused or extremely tired immediately after waking up?",
                  "Did you bite your tongue or lose bladder control?" >> >>
         >> >>,
      << "GENERAL",
         <<
            << "weakness",
               << "Do you have any numbness or tingling in your face, arms, or legs?",
                  "Is one side of your body weaker than the other?" >> >>,
            << "cognition",
               << "Are you having trouble speaking or understanding words?",
                  "Do you feel confused or disoriented?" >> >>,
            << "history",
               << "Have you ever had a seizure or stroke before?",
                  "Are you currently on any medication?" >> >>
         >> >>,
      << "DEFAULT",
         <<
            << "assessment",
               << "Can you describe the sensation you are feeling in more detail?",
                  "When did you first notice this symptom?",
                  "Is the symptom constant, or does it come and go?",
                  "On a scale of 1-10, how much is this affecting your daily activities?" >> >>
         >> >>
   >>

\* api.py:341-359  sub-group -> trigger words, in table-definition order
RESPIRATORY_KEYWORDS ==
   <<
      << "BREATHING",
         << "breath", "breathing", "short of breath", "gasp", "wheeze", "tight", "suffocate",
            "air", "pant", "asthma", "inhaler" >> >>,
      << "COUGH",
         << "cough", "hacking", "phlegm", "sputum", "mucus", "spit", "blood", "dry cough",
            "wet cough", "bark" >> >>,
      << "INFECTION",
         << "pneumonia", "bronchitis", "fever", "chills", "flu", "cold", "chest infection",
            "painful breath" >> >>,
      << "GENERAL",
         << "chest", "congestion", "stuff", "stuffed", "allergy", "sneeze", "runny nose", "nose",
            "sinus" >> >>
   >>

\* api.py:364-433  sub-group -> slot -> candidate questions, in definition order
QUESTIONS_RESPIRATORY ==
   <<
      << "BREATHING",
         <<
            << "onset",
               << "Did this shortness of breath start suddenly or has it been getting worse over time?",
                  "Does it happen when you are resting, or only when you exert yourself (like walking)?" >> >>,
            << "severity",
               << "On a scale of 1-10, how difficult is it to breathe right now?",
                  "Do you feel like you can't get enough air into your lungs?" >> >>,
            << "sounds",
               << "Do you hear any wheezing or whistling sounds when you breathe?",
                  "Is your chest feeling tight or heavy?" >> >>
         >> >>,
      << "COUGH",
         <<
            << "type",
               << "Is your cough dry and tickly, or are you bringing up mucus (wet cough)?",
                  "Does the cough happen more at night or during the day?" >> >>,
            << "sputum",
               << "If you are coughing up mucus, what color is it (clear, yellow, green, or rusty)?",
                  "Have you coughed up any blood or pink froth?" >> >>,
            << "duration",
               << "How long have you had this cough?",
                  "Is it getting worse or staying the same?" >> >>
         >> >>,
      << "INFECTION",
         <<
            << "systemic",
               << "Do you have a high fever or chills along with the breathing issues?",
                  "Do you feel generally weak or achy?" >> >>,
            << "pain",
               << "Does it hurt your chest when you take a deep breath (sharp stabbing pain)?",
                  "Do your ribs hurt from coughing?" >> >>,
            << "history",
               << "Have you been around anyone sick recently?",
                  "Have you had a cold or flu that moved into your chest?" >> >>
         >> >>,
      << "GENERAL",
         <<
            << "symptoms",
               << "Do you have a runny or blocked nose?",
                  "Are your eyes itchy or watery?" >> >>,
            << "triggers",
               << "Do you notice these symptoms more around pets, dust, or pollen?",
                  "Does the weather change make it worse?" >> >>,
            << "congestion",
               << "Does your chest feel 'full' or congested?",
                  "Are you having trouble clearing your throat?" >> >>
         >> >>,
      << "DEFAULT",
         <<
            << "assessment",
               << "Can you describe exactly what you are feeling in your chest?",
                  "How long has this been bothering you?",
                  "Does anything make it better (like sitting up) or worse (like lying down)?",
                  "Have you ever had lung problems before?" >> >>
         >> >>
   >>

\* api.py:438-459  sub-group -> trigger words, in table-definition order
ORTHO_KEYWORDS ==
   <<
      << "SPINE_BACK",
         << "back", "spine", "neck", "lumbar", "disc", "sciatica", "tailbone", "vertebrae",
            "stiff neck" >> >>,
      << "JOINTS",
         << "knee", "hip", "shoulder", "elbow", "joint", "arthritis", "socket", "rotator cuff",
            "meniscus" >> >>,
      << "EXTREMITIES",
         << "hand", "wrist", "finger", "thumb", "foot", "ankle", "toe", "heel", "plantar",
            "carpal" >> >>,
      << "TRAUMA",
         << "break", "broken", "fracture", "fall", "fell", "twist", "sprain", "accident", "hit",
            "crash", "pop", "snap" >> >>,
      << "GENERAL",
         << "muscle", "ache", "sore", "stiffness", "swelling", "swell", "bruise", "cramp", "knot" >> >>
   >>

\* api.py:462-537  sub-group -> slot -> candidate questions, in definition order
QUESTIONS_ORTHOPEDIC ==
   <<
      << "SPINE_BACK",
         <<
            << "radiation",
               << "Does the pain shoot down your legs or arms?",
                  "Do you feel any electric shock sensations traveling away from your back?" >> >>,
            << "numbness",
               << "Do you have any numbness, especially in your groin or buttocks area?",
                  "Are you having any trouble controlling your bladder or bowels?" >> >>,
            << "triggers",
               << "Does it hurt more when you bend forward or lift things?",
                  "Is the pain worse in the morning when you wake up?" >> >>
         >> >>,
      << "JOINTS",
         <<
            << "stiffness",
               << "Is the joint stiff in the morning? If so, how long does it take to loosen up?",
                  "Does the joint feel 'locked' or stuck?" >> >>,
            << "swelling",
               << "Is the area swollen, red, or hot to the touch?",
                  "Can you see fluid buildup around the joint?" >> >>,
            << "sounds",
               << "Do you hear a clicking, grinding, or popping sound when you move it?",
                  "Does it feel like 'bone on bone'?" >> >>
         >> >>,
      << "TRAUMA",
         <<
            << "mechanism",
               << "How exactly did the injury happen (e.g., fell on outstretched hand, twisted knee)?",
                  "Did you hear a loud 'pop' or 'snap' when it happened?" >> >>,
            << "deformity",
               << "Does the limb look bent, crooked, or misshapen?",
                  "Is there any bone sticking out or a deep open wound?" >> >>,
            << "function",
               << "Can you put weight on it or move it at all?",
                  "Are you able to walk, or is it too painful?" >> >>
         >> >>,
      << "EXTREMITIES",
         <<
            << "usage",
               << "Does the pain get worse with specific activities like typing or walking?",
                  "Is the pain worse when you take your first steps in the morning?" >> >>,
            << "sensation",
               << "Do you feel pins and needles or numbness in your fingers or toes?",
                  "Does it feel like you are walking on a pebble?" >> >>
         >> >>,
      << "GENERAL",
         <<
            << "location",
               << "Where exactly is the pain located?",
                  "Is it deep in the bone or more in the muscle?" >> >>,
            << "impact",
               << "Is this stopping you from working or exercising?",
                  "Does the pain wake you up at night?" >> >>
         >> >>,
      << "DEFAULT",
         <<
            << "assessment",
               << "How long have you had this pain?",
                  "On a scale of 1-10, how severe is it?",
                  "Did you do any heavy lifting or exercise recently?" >> >>
         >> >>
   >>

\* api.py:542-559  sub-group -> trigger words, in table-definition order
DERMA_KEYWORDS ==
   <<
      << "RASH_ALLERGY",
         << "rash", "hives", "eczema", "redness", "bump", "blister", "spot", "pimple", "acne",
            "breakout", "psoriasis" >> >>,
      << "TRAUMA_BURN",
         << "cut", "burn", "bleed", "wound", "scrape", "scald", "fire", "knife", "injury", "tear",
            "laceration", "hot" >> >>,
      << "BITES",
         << "bite", "sting", "spider", "bug", "mosquito", "tick", "bee", "wasp", "insect" >> >>,
      << "GENERAL",
         << "itch", "dry", "peel", "flake", "skin", "scab", "mole", "lump", "growth" >> >>
   >>

\* api.py:562-621  sub-group -> slot -> candidate questions, in definition order
QUESTIONS_DERMATOLOGICAL ==
   <<
      << "RASH_ALLERGY",
         <<
            << "spread",
               << "Is the rash spreading to other parts of your body?",
                  "Is it staying in one spot or moving?" >> >>,
            << "triggers",
               << "Did you use any new soaps, lotions, or detergents recently?",
                  "Have you eaten anything new or been out in the woods?" >> >>,
            << "sensation",
               << "Does the rash burn, itch, or feel hot to the touch?" >> >>
         >> >>,
      << "TRAUMA_BURN",
         <<
            << "depth",
               << "How deep is the wound? Can you see fatty tissue or bone?",
                  "For a burn, did the skin blister or turn white/black?" >> >>,
            << "bleeding",
               << "Is it bleeding heavily? Does it stop if you press on it?",
                  "Is there any pulsing blood?" >> >>,
            << "infection_signs",
               << "Do you see any yellow pus or red streaks coming from the wound?",
                  "Is the area swollen and painful?" >> >>
         >> >>,
      << "BITES",
         <<
            << "appearance",
               << "What does the bite look like? (e.g., Bullseye pattern, two puncture marks)",
                  "Is the area around the bite turning black or purple?" >> >>,
            << "systemic",
               << "Are you having any trouble breathing or swallowing?",
                  "Do you feel dizzy or nauseous?" >> >>
         >> >>,
      << "GENERAL",
         <<
            << "duration",
               << "How long have you had this skin issue?",
                  "Has it changed in size or color recently?" >> >>,
            << "location",
               << "Where exactly on your body is the problem?",
                  "Is it all over or just in one specific area?" >> >>
         >> >>,
      << "DEFAULT",
         <<
            << "assessment",
               << "Can you describe what the skin looks like right now?",
                  "Is it causing you pain or just discomfort?",
                  "Have you applied any creams or medications to it?" >> >>
         >> >>
   >>

\* api.py:626-655  sub-group -> trigger words, in table-definition order
GENERAL_KEYWORDS ==
   <<
      << "SUMMER_HYDRATION",
         << "sun", "heat", "hot", "sweat", "dry", "thirsty", "water", "urine", "pee", "burn",
            "faint", "dizzy", "dehydrated" >> >>,
      << "MONSOON_VECTOR",
         << "mosquito", "bite", "shiver", "chill", "cold", "shake", "bone pain", "joint pain",
            "eye pain", "dengue", "malaria" >> >>,
      << "WINTER_VIRAL",
         << "flu", "cold", "sneeze", "runny", "nose", "ache", "body pain", "sore throat", "cough",
            "congestion", "viral" >> >>,
      << "CHRONIC_METABOLIC",
         << "tired", "fatigue", "weak", "weight", "loss", "gain", "hair", "hungry", "thirst",
            "sugar", "thyroid", "pale", "sleep" >> >>,
      << "FLU_SYMPTOMS",
         << "fever", "chill", "shiver", "temperature", "high temp", "sweat", "hot", "cold",
            "body ache", "muscle ache", "sore body", "weak", "flu", "viral" >> >>,
      << "FATIGUE",
         << "tired", "fatigue", "exhausted", "low energy", "sleepy", "draining", "lethargic",
            "no energy", "worn out" >> >>,
      << "WEIGHT_APPETITE",
         << "weight loss", "weight gain", "lost weight", "thin", "heavy", "no appetite", "hungry",
            "not eating", "eating too much" >> >>
   >>

\* api.py:658-761  sub-group -> slot -> candidate questions, in definition order
QUESTIONS_GENERAL_SYSTEMIC ==
   <<
      << "SUMMER_HYDRATION",
         <<
            << "intake",
               << "How much water have you been drinking today?",
                  "Have you been out in the sun or working in the heat recently?" >> >>,
            << "urine_output",
               << "is your urine dark yellow or does it burn when you pee?",
                  "When was the last time you urinated?" >> >>,
            << "mental_state",
               << "Do you feel confused or like you might pass out?",
                  "Has the sweating stopped completely (dry skin)?" >> >>
         >> >>,
      << "MONSOON_VECTOR",
         <<
            << "fever_pattern",
               << "Does the fever come and go (like every other day), or is it constant?",
                  "Do you have severe shivering (rigors) before the fever spikes?" >> >>,
            << "pain_specifics",
               << "Do you have severe pain behind your eyes?",
                  "Does it feel like your bones are breaking (severe body ache)?" >> >>,
            << "bleeding_check",
               << "Have you noticed any bleeding from your gums or nose?",
                  "Do you see any tiny red spots (rashes) on your skin?" >> >>
         >> >>,
      << "WINTER_VIRAL",
         <<
            << "respiratory_check",
               << "Do you have a runny nose or sore throat?",
                  "Is there a cough accompanying the body aches?" >> >>,
            << "severity",
               << "Do you feel like you've been 'hit by a truck' (sudden extreme fatigue)?",
                  "Is the fever mild or very high?" >> >>
         >> >>,
      << "CHRONIC_METABOLIC",
         <<
            << "weight_energy",
               << "Have you noticed any unexplained weight loss or weight gain?",
                  "Do you feel tired even after a full night's sleep?" >> >>,
            << "classic_signs",
               << "Are you feeling thirsty or hungry all the time?",
                  "Are you experiencing hair loss or dry skin?" >> >>,
            << "timeline",
               << "How long have you been feeling this 'general' weakness?",
                  "Has anyone in your family had thyroid or sugar issues?" >> >>
         >> >>,
      << "FLU_SYMPTOMS",
         <<
            << "temperature",
               << "Have you measured your temperature? If so, how high is it?",
                  "Do you feel hot or feverish to the touch?" >> >>,
            << "duration",
               << "How many days have you been feeling this way?",
                  "Did these symptoms start suddenly or gradually?" >> >>,
            << "other_symptoms",
               << "Do you have a cough, sore throat, or runny nose?",
                  "Are you experiencing any other specific pains besides body aches?" >> >>
         >> >>,
      << "FATIGUE",
         <<
            << "sleep",
               << "How have you been sleeping lately? Is it restful?",
                  "Are you sleeping more than usual?" >> >>,
            << "impact",
               << "Is the tiredness affecting your daily work or activities?",
                  "Do you feel tired even after waking up?" >> >>,
            << "duration",
               << "How long have you been feeling this low energy?",
                  "Has this been going on for weeks or just a few days?" >> >>
         >> >>,
      << "WEIGHT_APPETITE",
         <<
            << "amount",
               << "Have you noticed a significant change in your weight recently?",
                  "Are you eating more or less than usual?" >> >>,
            << "timeline",
               << "Over what period of time has this change happened?",
                  "Did this change happen quickly?" >> >>
         >> >>,
      << "DEFAULT",
         <<
            << "assessment",
               << "Can you tell me your main symptom right now?",
                  "Do you have a fever? If so, how high is it?",
                  "Are you eating and drinking normally?" >> >>
         >> >>
   >>
\* ------------------------------------------------------------------------
\* get_next_question: the cross-cutting patterns
\* ------------------------------------------------------------------------

\* api.py:870  (\d+|one|two|three|few|several)
DurationWords == << "one", "two", "three", "few", "several" >>

\* api.py:870  (day|week|month|hour|min)
DurationUnits == << "day", "week", "month", "hour", "min" >>

\* the position after a match of the duration pattern starting at p, or 0
DurationEnd(s, p) ==
   LET head == IF p <= Len(s) /\ CharAt(s, p) \in Digits
               THEN SkipClass(s, p, Digits)
               ELSE LitEnd(s, p, DurationWords)
   IN IF head = 0 THEN 0 ELSE LitEnd(s, SkipClass(s, head, Whitespace), DurationUnits)

\* re.search(r"(\d+|one|two|three|few|several)\s*(day|week|month|hour|min)", s)
SearchDuration(s) ==
   LET ps == {p \in 1..Len(s) : DurationEnd(s, p) # 0}
   IN IF ps = {} THEN NoMatch
      ELSE [start |-> Min(ps) - 1, group |-> SubSeq(s, Min(ps), DurationEnd(s, Min(ps)) - 1)]

\* api.py:23  (mild|moderate|severe|sharp|dull|excruciating|bad)
SeverityWords == << "mild", "moderate", "severe", "sharp", "dull", "excruciating", "bad" >>

\* api.py:23  (level|score|pain)
SeverityScales == << "level", "score", "pain" >>

\* the position after a match of SEVERITY_PATTERN starting at p, or 0:
\* a severity word, else \d+\s*/\s*10, else (level|score|pain)\s+(\d+)
SeverityEnd(s, p) ==
   LET word == LitEnd(s, p, SeverityWords)
       slash == SkipClass(s, SkipClass(s, p, Digits), Whitespace)
       ten == SkipClass(s, slash + 1, Whitespace)
       scale == LitEnd(s, p, SeverityScales)
       number == SkipClass(s, scale, Whitespace)
   IN IF word # 0 THEN word
      ELSE IF /\ p <= Len(s) /\ CharAt(s, p) \in Digits
              /\ MatchAt(s, slash, "/") /\ MatchAt(s, ten, "10")
      THEN ten + 2
      ELSE IF /\ scale # 0 /\ number > scale
              /\ number <= Len(s) /\ CharAt(s, number) \in Digits
      THEN SkipClass(s, number, Digits)
      ELSE 0

\* re.search(SEVERITY_PATTERN, s)
SEVERITY_PATTERN(s) ==
   LET ps == {p \in 1..Len(s) : SeverityEnd(s, p) # 0}
   IN IF ps = {} THEN NoMatch
      ELSE [start |-> Min(ps) - 1, group |-> SubSeq(s, Min(ps), SeverityEnd(s, Min(ps)) - 1)]

\* ------------------------------------------------------------------------
\* get_next_question: the category cascades
\* ------------------------------------------------------------------------

\* a rule without an urgency level, a rule without a red-flag pattern
NoLevel == None

NoFlag == << >>

\* api.py:887  cascade of GASTROINTESTINAL, in execution order
RULES_GASTROINTESTINAL ==
   <<
      [slot |-> "vomiting",   \* api.py:890
       pattern |-> << "vomit", "nausea", "puke", "throw up", "queasy", "dry heave" >>,
       level |-> NoLevel, flag |-> NoFlag],
      [slot |-> "bowel",   \* api.py:896
       pattern |-> << "diarrhea", "constipation", "poop", "stool", "loose", "runny" >>,
       level |-> NoLevel, flag |-> NoFlag],
      [slot |-> "bloating",   \* api.py:902
       pattern |-> << "bloat", "gas", "fart", "fullness", "air", "burp" >>,
       level |-> NoLevel, flag |-> NoFlag],
      [slot |-> "triggers",   \* api.py:908
       pattern |-> << "ate", "food", "meal", "restaurant", "spicy", "oily", "sushi", "chicken" >>,
       level |-> NoLevel, flag |-> NoFlag],
      [slot |-> "stool_color",   \* api.py:914
       pattern |-> << "blood", "red", "black", "tar", "dark stool", "coffee" >>,
       level |-> "CRITICAL", flag |-> NoFlag],
      [slot |-> "hydration",   \* api.py:926
       pattern |-> << "water", "drink", "thirsty", "dry mouth", "pee", "urine" >>,
       level |-> NoLevel, flag |-> NoFlag]
   >>

\* api.py:932  cascade of RESPIRATORY, in execution order
RULES_RESPIRATORY ==
   <<
      [slot |-> "onset",   \* api.py:935
       pattern |-> << "sudden", "slow", "gradual", "rest", "walk", "run", "exercise", "exert" >>,
       level |-> NoLevel, flag |-> NoFlag],
      [slot |-> "sounds",   \* api.py:941
       pattern |-> << "wheeze", "whistle", "gasp", "squeak", "noisy", "stridor" >>,
       level |-> NoLevel, flag |-> NoFlag],
      [slot |-> "type",   \* api.py:947
       pattern |-> << "dry", "wet", "hack", "tickle", "productive", "bark" >>,
       level |-> NoLevel, flag |-> NoFlag],
      [slot |-> "sputum",   \* api.py:953
       pattern |-> << "mucus", "phlegm", "sputum", "spit", "green", "yellow", "clear", "blood", "red",
                     "pink" >>,
       level |-> "CRITICAL", flag |-> << "blood", "red", "pink" >>],
      [slot |-> "systemic",   \* api.py:964
       pattern |-> << "fever", "hot", "temp", "chill", "shiver", "sweat", "ache", "weak" >>,
       level |-> NoLevel, flag |-> NoFlag],
      [slot |-> "pain",   \* api.py:970
       pattern |-> << "hurt", "pain", "stab", "sharp", "rib", "burn" >>,
       level |-> NoLevel, flag |-> NoFlag],
      [slot |-> "triggers",   \* api.py:976
       pattern |-> << "dust", "pollen", "cat", "dog", "pet", "smoke", "weather", "season" >>,
       level |-> NoLevel, flag |-> NoFlag],
      [slot |-> "congestion",   \* api.py:982
       pattern |-> << "stuff", "block", "full", "clog", "drip" >>,
       level |-> NoLevel, flag |-> NoFlag]
   >>

\* api.py:988  cascade of NEUROLOGICAL, in execution order
RULES_NEUROLOGICAL ==
   <<
      [slot |-> "location",   \* api.py:991
       pattern |-> << "front", "back", "side", "temple", "forehead", "skull", "left", "right", "spot",
                     "all over" >>,
       level |-> NoLevel, flag |-> NoFlag],
      [slot |-> "associated_symptoms",   \* api.py:996
       pattern |-> << "nausea", "sick", "vomit", "puke", "light", "bright", "sound", "noise", "loud",
                     "eye hurt" >>,
       level |-> NoLevel, flag |-> NoFlag],
      [slot |-> "sensation",   \* api.py:1002
       pattern |-> << "spin", "room", "round", "lightheaded", "woozy", "faint", "unsteady", "balance",
                     "fall" >>,
       level |-> NoLevel, flag |-> NoFlag],
      [slot |-> "triggers",   \* api.py:1007
       pattern |-> << "stand", "up", "rise", "bed", "roll", "turn", "move head", "lying" >>,
       level |-> NoLevel, flag |-> NoFlag],
      [slot |-> "ears",   \* api.py:1012
       pattern |-> << "ring", "buzz", "ear", "full", "pop", "muffle", "hear", "tinnitus" >>,
       level |-> NoLevel, flag |-> NoFlag],
      [slot |-> "clarity",   \* api.py:1018
       pattern |-> << "blur", "double", "blind", "curtain", "dark", "see", "focus", "fog" >>,
       level |-> NoLevel, flag |-> NoFlag],
      [slot |-> "disturbances",   \* api.py:1023
       pattern |-> << "flash", "spot", "zig", "zag", "line", "star", "halo", "spark" >>,
       level |-> NoLevel, flag |-> NoFlag],
      [slot |-> "onset",   \* api.py:1028
       pattern |-> << "sudden", "instant", "gradual", "slow", "woke up" >>,
       level |-> NoLevel, flag |-> NoFlag],
      [slot |-> "event",   \* api.py:1034
       pattern |-> << "black", "faint", "pass out", "floor", "wake", "remember", "conscious" >>,
       level |-> NoLevel, flag |-> NoFlag],
      [slot |-> "warning",   \* api.py:1039
       pattern |-> << "aura", "smell", "sweat", "hot", "nausea", "dizzy before" >>,
       level |-> NoLevel, flag |-> NoFlag],
      [slot |-> "aftermath",   \* api.py:1044
       pattern |-> << "confuse", "tired", "sleepy", "bite", "tongue", "wet", "urine", "sore" >>,
       level |-> NoLevel, flag |-> NoFlag],
      [slot |-> "weakness",   \* api.py:1050
       pattern |-> << "numb", "tingle", "weak", "pin", "needle", "feel", "arm", "leg", "face", "droop" >>,
       level |-> NoLevel, flag |-> NoFlag],
      [slot |-> "cognition",   \* api.py:1055
       pattern |-> << "speak", "slur", "word", "talk", "understand", "confuse", "memory", "disorient" >>,
       level |-> NoLevel, flag |-> NoFlag],
      [slot |-> "history",   \* api.py:1060
       pattern |-> << "stroke", "seizure", "epilepsy", "medication", "drug", "history", "before" >>,
       level |-> NoLevel, flag |-> NoFlag]
   >>

\* api.py:1066  cascade of ORTHOPEDIC, in execution order
RULES_ORTHOPEDIC ==
   <<
      [slot |-> "radiation",   \* api.py:1069
       pattern |-> << "shoot", "leg", "arm", "travel", "down", "radiate", "electric", "shock" >>,
       level |-> NoLevel, flag |-> NoFlag],
      [slot |-> "numbness",   \* api.py:1074
       pattern |-> << "numb", "groin", "butt", "bladder", "bowel", "toilet", "control" >>,
       level |-> NoLevel, flag |-> NoFlag],
      [slot |-> "sounds",   \* api.py:1080
       pattern |-> << "lock", "stuck", "click", "grind", "pop", "noise", "crunch" >>,
       level |-> NoLevel, flag |-> NoFlag],
      [slot |-> "swelling",   \* api.py:1085
       pattern |-> << "swell", "swollen", "puff", "red", "hot", "warm", "fluid", "balloon" >>,
       level |-> NoLevel, flag |-> NoFlag],
      [slot |-> "mechanism",   \* api.py:1091
       pattern |-> << "fall", "fell", "trip", "hit", "twist", "land", "crush", "accident" >>,
       level |-> NoLevel, flag |-> NoFlag],
      [slot |-> "function",   \* api.py:1096
       pattern |-> << "walk", "stand", "weight", "move", "step", "lift" >>,
       level |-> NoLevel, flag |-> NoFlag],
      [slot |-> "deformity",   \* api.py:1102
       pattern |-> << "bent", "crooked", "shape", "bone", "sticking", "out", "deformed", "angle" >>,
       level |-> "CRITICAL", flag |-> << "bone sticking", "bone out", "white", "open wound" >>],
      [slot |-> "usage",   \* api.py:1113
       pattern |-> << "type", "computer", "morning", "first step", "walk", "run", "shoe" >>,
       level |-> NoLevel, flag |-> NoFlag]
   >>

\* api.py:1119  cascade of DERMATOLOGICAL, in execution order
RULES_DERMATOLOGICAL ==
   <<
      [slot |-> "triggers",   \* api.py:1122
       pattern |-> << "soap", "lotion", "food", "plant", "woods", "detergent" >>,
       level |-> NoLevel, flag |-> NoFlag],
      [slot |-> "sensation",   \* api.py:1129
       pattern |-> << "itch", "burn", "sting", "pain", "hot", "fire" >>,
       level |-> NoLevel, flag |-> NoFlag],
      [slot |-> "spread",   \* api.py:1135
       pattern |-> << "spread", "move", "growing", "bigger", "body", "all over" >>,
       level |-> NoLevel, flag |-> NoFlag],
      [slot |-> "depth",   \* api.py:1141
       pattern |-> << "deep", "bone", "fat", "white", "charred", "blister", "open" >>,
       level |-> NoLevel, flag |-> NoFlag],
      [slot |-> "bleeding",   \* api.py:1147
       pattern |-> << "blood", "bleed", "gush", "soak", "pulsing", "stop" >>,
       level |-> "CRITICAL", flag |-> << "gush", "won't stop", "pulsing", "heavy" >>],
      [slot |-> "infection_signs",   \* api.py:1159
       pattern |-> << "pus", "yellow", "ooze", "streak", "line", "hot", "smell" >>,
       level |-> "HIGH", flag |-> << "streak", "line" >>],
      [slot |-> "systemic",   \* api.py:1172
       pattern |-> << "breath", "throat", "swallow", "dizzy", "faint", "tongue", "swell" >>,
       level |-> "CRITICAL", flag |-> NoFlag],
      [slot |-> "location",   \* api.py:1184
       pattern |-> << "face", "arm", "leg", "back", "hand", "foot", "stomach" >>,
       level |-> NoLevel, flag |-> NoFlag]
   >>

\* api.py:1190  cascade of GENERAL_SYSTEMIC, in execution order
RULES_GENERAL_SYSTEMIC ==
   <<
      [slot |-> "intake",   \* api.py:1195
       pattern |-> << "sun", "heat", "work", "outside", "sweat", "hot", "dry", "faint", "dizzy" >>,
       level |-> NoLevel, flag |-> NoFlag],
      [slot |-> "urine_output",   \* api.py:1200
       pattern |-> << "urine", "pee", "bathroom", "burn", "yellow", "dark" >>,
       level |-> "CRITICAL", flag |-> << "stopped sweating", "no sweat", "dry skin", "confused" >>],
      [slot |-> "assessment",   \* api.py:1211
       pattern |-> << "fever", "temperature", "sick", "ill", "unwell", "symptom" >>,
       level |-> NoLevel, flag |-> NoFlag],
      [slot |-> "fever_pattern",   \* api.py:1216
       pattern |-> << "shiver", "chill", "shake", "cold", "night" >>,
       level |-> NoLevel, flag |-> NoFlag],
      [slot |-> "pain_specifics",   \* api.py:1221
       pattern |-> << "eye", "bone", "joint", "break", "muscle" >>,
       level |-> NoLevel, flag |-> NoFlag],
      [slot |-> "bleeding_check",   \* api.py:1226
       pattern |-> << "bleed", "gum", "nose", "spot", "rash", "red" >>,
       level |-> "HIGH", flag |-> << "bleed" >>],
      [slot |-> "respiratory_check",   \* api.py:1237
       pattern |-> << "nose", "throat", "sneeze", "cough", "chest", "congestion" >>,
       level |-> NoLevel, flag |-> NoFlag],
      [slot |-> "weight_energy",   \* api.py:1243
       pattern |-> << "weight", "thin", "fat", "loss", "gain", "sleep", "tired" >>,
       level |-> NoLevel, flag |-> NoFlag],
      [slot |-> "classic_signs",   \* api.py:1248
       pattern |-> << "thirsty", "hungry", "eat", "drink", "hair", "skin" >>,
       level |-> NoLevel, flag |-> NoFlag],
      [slot |-> "timeline",   \* api.py:1253
       pattern |-> << "family", "mom", "dad", "genetic", "sugar", "thyroid" >>,
       level |-> NoLevel, flag |-> NoFlag]
   >>

\* api.py:887-1190  the if/elif chain on category; no branch for other names
RULES(category) ==
   CASE category = "GASTROINTESTINAL" -> RULES_GASTROINTESTINAL
     [] category = "RESPIRATORY" -> RULES_RESPIRATORY
     [] category = "NEUROLOGICAL" -> RULES_NEUROLOGICAL
     [] category = "ORTHOPEDIC" -> RULES_ORTHOPEDIC
     [] category = "DERMATOLOGICAL" -> RULES_DERMATOLOGICAL
     [] category = "GENERAL_SYSTEMIC" -> RULES_GENERAL_SYSTEMIC
     [] OTHER -> << >>

\* api.py:1258-1277  redirect checks of GENERAL_SYSTEMIC, in execution order
REDIRECT_RULES ==
   <<
      [target |-> "GASTROINTESTINAL",
       pattern |-> << "stomach", "vomit", "puke", "diarrhea", "nausea", "poop" >>],
      [target |-> "RESPIRATORY",
       pattern |-> << "wheeze", "short of breath", "asthma", "lung" >>],
      [target |-> "NEUROLOGICAL",
       pattern |-> << "seizure", "blind", "vision", "double", "slur" >>],
      [target |-> "DERMATOLOGICAL",
       pattern |-> << "rash", "hives", "itch", "skin", "bump" >>]
   >>

\* The assignments one rule makes to the clipboard, in order, as
\* <<key, value>> pairs: the slot, then URGENCY_OVERRIDE when the rule has a
\* level, its red-flag pattern (if any) is found in the text and the match
\* is not negated.
RuleWrites(text_lower, rule) ==
   LET match == Search(text_lower, rule.pattern)
   IN IF match = NoMatch THEN << >>
      ELSE LET is_negated == check_negation(text_lower, match.start)
               prefix == IF is_negated THEN "no " ELSE ""
               fact == << <<rule.slot, prefix \o match.group>> >>
           IN IF /\ rule.level # NoLevel
                 /\ (rule.flag = NoFlag \/ Search(text_lower, rule.flag) # NoMatch)
                 /\ ~is_negated
              THEN fact \o << <<"URGENCY_OVERRIDE", rule.level>> >>
              ELSE fact

RECURSIVE CascadeWrites(_, _, _)
CascadeWrites(text_lower, rules, i) ==
   IF i > Len(rules) THEN << >>
   ELSE RuleWrites(text_lower, rules[i]) \o CascadeWrites(text_lower, rules, i + 1)

\* api.py:867-881  duration, then severity, each stored verbatim
CrossCuttingWrites(text_lower) ==
   LET duration == SearchDuration(text_lower)
       severity == SEVERITY_PATTERN(text_lower)
   IN (IF duration # NoMatch THEN << <<"duration", duration.group>> >> ELSE << >>)
      \o (IF severity # NoMatch THEN << <<"severity", severity.group>> >> ELSE << >>)

\* the target of the last redirect check that matches
RedirectTarget_LastListed(text_lower) ==
   LET hits == {i \in 1..Len(REDIRECT_RULES) :
                   Search(text_lower, REDIRECT_RULES[i].pattern) # NoMatch}
   IN IF hits = {} THEN None ELSE REDIRECT_RULES[Max(hits)].target

\* api.py:1258-1277  the target of the first redirect check that matches
RedirectTarget(text_lower) ==
   LET hits == {i \in 1..Len(REDIRECT_RULES) :
                   Search(text_lower, REDIRECT_RULES[i].pattern) # NoMatch}
   IN IF hits = {} THEN None ELSE REDIRECT_RULES[Min(hits)].target

\* the extraction where the redirect checks run in every category
Extraction_EveryCategory(text_lower, category) ==
   LET target == RedirectTarget(text_lower)
   IN [writes |-> CrossCuttingWrites(text_lower)
                  \o CascadeWrites(text_lower, RULES(category), 1)
                  \o (IF target # None THEN << <<"category_redirect", target>> >> ELSE << >>),
       redirect |-> target # None]

\* api.py:867-1277  everything get_next_question writes for (text, category)
\* after the yes/no handler, and whether it returns (None, "redirect")
Extraction(text_lower, category) ==
   LET target == IF category = "GENERAL_SYSTEMIC" THEN RedirectTarget(text_lower) ELSE None
   IN [writes |-> CrossCuttingWrites(text_lower)
                  \o CascadeWrites(text_lower, RULES(category), 1)
                  \o (IF target # None THEN << <<"category_redirect", target>> >> ELSE << >>),
       redirect |-> target # None]

\* api.py:842, api.py:864
NoWords == << "no", "nah", "not", "nope" >>

YesWords == << "yes", "yeah", "yep", "sure" >>

\* ------------------------------------------------------------------------
\* get_best_subgroup and the category heuristic of predict_disease
\* ------------------------------------------------------------------------

\* api.py:783-805
KEYWORDS(category) ==
   CASE category = "GASTROINTESTINAL" -> GASTRO_KEYWORDS
     [] category = "NEUROLOGICAL" -> NEURO_KEYWORDS
     [] category = "RESPIRATORY" -> RESPIRATORY_KEYWORDS
     [] category = "ORTHOPEDIC" -> ORTHO_KEYWORDS
     [] category = "DERMATOLOGICAL" -> DERMA_KEYWORDS
     [] category = "GENERAL_SYSTEMIC" -> GENERAL_KEYWORDS
     [] OTHER -> << >>

\* the router where the last sub-group of the table that matches is returned
get_best_subgroup_LastMatch(text, category) ==
   LET target_dict == KEYWORDS(category)
       hits == {i \in 1..Len(target_dict) : ContainsAny(Lower(text), target_dict[i][2])}
   IN IF hits = {} THEN "DEFAULT" ELSE target_dict[Max(hits)][1]

\* api.py:763-825
get_best_subgroup(text, category) ==
   LET target_dict == KEYWORDS(category)
       hits == {i \in 1..Len(target_dict) : ContainsAny(Lower(text), target_dict[i][2])}
   IN IF hits = {} THEN "DEFAULT" ELSE target_dict[Min(hits)][1]

\* api.py:1464-1473  the keyword tuples of the if/elif chain, in order
CATEGORY_RULES ==
   <<
      << "RESPIRATORY", << "cough", "breath", "chest", "wheeze", "lung" >> >>,
      << "NEUROLOGICAL", << "head", "dizzy", "migraine", "seizure", "vision", "faint" >> >>,
      << "DERMATOLOGICAL", << "skin", "rash", "itch", "blister", "burn", "hives" >> >>,
      << "ORTHOPEDIC", << "bone", "fracture", "knee", "back", "joint", "swollen" >> >>,
      << "GASTROINTESTINAL", << "stomach", "vomit", "puke", "diarrhea", "nausea", "pain" >> >>
   >>

\* the heuristic where the last rule that matches decides
PredictCategory_LastRule(text) ==
   LET text_lower == Lower(text)
       hits == {i \in 1..Len(CATEGORY_RULES) : ContainsAny(text_lower, CATEGORY_RULES[i][2])}
   IN IF hits = {} THEN "GENERAL_SYSTEMIC" ELSE CATEGORY_RULES[Max(hits)][1]

\* api.py:1463-1476
PredictCategory(text) ==
   LET text_lower == Lower(text)
       hits == {i \in 1..Len(CATEGORY_RULES) : ContainsAny(text_lower, CATEGORY_RULES[i][2])}
   IN IF hits = {} THEN "GENERAL_SYSTEMIC" ELSE CATEGORY_RULES[Min(hits)][1]

\* ------------------------------------------------------------------------
\* The question bank in force at run time
\* ------------------------------------------------------------------------

\* api.py:152  SPECIALIST_QUESTIONS = {"GASTROINTESTINAL": {...}}
SPECIALIST_QUESTIONS_152 == << <<"GASTROINTESTINAL", QUESTIONS_GASTROINTESTINAL>> >>

\* api.py:246  SPECIALIST_QUESTIONS = {"NEUROLOGICAL": {...}}: the name is
\* bound to a new dict, the dict of line 152 is no longer reachable
SPECIALIST_QUESTIONS_246 == << <<"NEUROLOGICAL", QUESTIONS_NEUROLOGICAL>> >>

\* api.py:364, 462, 562, 658  SPECIALIST_QUESTIONS[<category>] = {...}
SPECIALIST_QUESTIONS ==
   DictSet(DictSet(DictSet(DictSet(SPECIALIST_QUESTIONS_246,
      "RESPIRATORY", QUESTIONS_RESPIRATORY),
      "ORTHOPEDIC", QUESTIONS_ORTHOPEDIC),
      "DERMATOLOGICAL", QUESTIONS_DERMATOLOGICAL),
      "GENERAL_SYSTEMIC", QUESTIONS_GENERAL_SYSTEMIC)

Categories ==
   {"GASTROINTESTINAL", "RESPIRATORY", "NEUROLOGICAL", "ORTHOPEDIC", "DERMATOLOGICAL",
    "GENERAL_SYSTEMIC"}

\* ------------------------------------------------------------------------
\* Inputs
\* ------------------------------------------------------------------------

\* the utterances a patient may send to /predict
Utterances ==
   << "I have severe stomach pain and vomiting for 2 days",
      "my skin cut is gushing blood",
      "there is a red streak and pus, it was a wasp",
      "it started 3 days ago",
      "now i vomit a lot",
      "my stomach hurts",
      "Yes" >>

\* the utterances get_next_question is called on in isolation
EngineTexts ==
   << "gushing blood and a red streak",
      "gushing blood, a line, and my throat is tight",
      "my throat is tight and there is a red streak",
      "dark urine, confused, gums bleed",
      "my gums bleed",
      "it is gushing blood",
      "no vomiting today",
      "vomiting since morning",
      "yellow phlegm but no blood",
      "it does bleed but not heavy",
      "no black stool but there is blood",
      "i feel confused",
      "asthma and an itchy rash",
      "a seizure, hives and nausea" >>

\* the answers a patient gives to the question asked last
AnswerTexts ==
   << "No",
      "Yes",
      "nope",
      "no, it is not severe",
      "yes, there is yellow phlegm",
      "yeah, after spicy food",
      "it is hard to say" >>

\* the utterances the classifier and the router are called on in isolation
RouterTexts ==
   << "I cough and my head hurts",
      "my head is dizzy and my skin itches",
      "a rash on my swollen knee",
      "my back hurts and i vomit",
      "Stomach pain",
      "i feel tired and cold",
      "a rash from a bee sting",
      "nothing at all" >>

\* the replies of a patient who was asked a question: with and without a
\* yes/no word, with a keyword of the router, with vocabulary of a redirect
ReplyTexts ==
   << "No",
      "Yes",
      "it is hard to say",
      "yes, and an itchy rash",
      "no, but i wheeze",
      "yes but not much" >>

\* every text the engine is evaluated on; "" is the text of the redirect
\* handler's last call (api.py:1548)
KnownTexts ==
   Utterances \o EngineTexts \o AnswerTexts \o RouterTexts \o ReplyTexts \o << "" >>

\* ------------------------------------------------------------------------
\* The text-only part of a turn, evaluated once per known text
\* ------------------------------------------------------------------------

\* what the code derives from the text alone: the matches of the yes/no
\* patterns (api.py:842, 864), the extraction under each category
\* (api.py:867-1277), the router's answer for each category (api.py:763-825)
\* and the category heuristic (api.py:1463-1476)
TextFacts(user_text) ==
   LET text_lower == Lower(user_text)
   IN [negation |-> WordSearch(text_lower, NoWords),
       affirmation |-> WordSearch(text_lower, YesWords),
       category |-> PredictCategory(user_text),
       extraction |->
          [GASTROINTESTINAL |-> Extraction(text_lower, "GASTROINTESTINAL"),
           RESPIRATORY |-> Extraction(text_lower, "RESPIRATORY"),
           NEUROLOGICAL |-> Extraction(text_lower, "NEUROLOGICAL"),
           ORTHOPEDIC |-> Extraction(text_lower, "ORTHOPEDIC"),
           DERMATOLOGICAL |-> Extraction(text_lower, "DERMATOLOGICAL"),
           GENERAL_SYSTEMIC |-> Extraction(text_lower, "GENERAL_SYSTEMIC")],
       subgroup |->
          [GASTROINTESTINAL |-> get_best_subgroup(user_text, "GASTROINTESTINAL"),
           RESPIRATORY |-> get_best_subgroup(user_text, "RESPIRATORY"),
           NEUROLOGICAL |-> get_best_subgroup(user_text, "NEUROLOGICAL"),
           ORTHOPEDIC |-> get_best_subgroup(user_text, "ORTHOPEDIC"),
           DERMATOLOGICAL |-> get_best_subgroup(user_text, "DERMATOLOGICAL"),
           GENERAL_SYSTEMIC |-> get_best_subgroup(user_text, "GENERAL_SYSTEMIC")]]

RECURSIVE TextFactsUpTo(_)
TextFactsUpTo(n) ==
   IF n = 0 THEN << >> ELSE Append(TextFactsUpTo(n - 1), TextFacts(KnownTexts[n]))

\* TextFacts of every known text, in the order of KnownTexts
TextTable == TextFactsUpTo(Len(KnownTexts))

FactsOf(user_text) ==
   TextTable[Min({i \in 1..Len(KnownTexts) : KnownTexts[i] = user_text})]

\* ------------------------------------------------------------------------
\* get_next_question
\* ------------------------------------------------------------------------

RECURSIVE ApplyWrites_HighestWins(_, _, _)
RECURSIVE ApplyWrites_Accumulating(_, _, _)
RECURSIVE ApplyWrites(_, _, _)

\* the assignments of writes[i..], where URGENCY_OVERRIDE, once CRITICAL,
\* is not assigned again
ApplyWrites_HighestWins(clipboard, writes, i) ==
   IF i > Len(writes) THEN clipboard
   ELSE IF /\ writes[i][1] = "URGENCY_OVERRIDE"
           /\ DictGet(clipboard, "URGENCY_OVERRIDE", None) = "CRITICAL"
   THEN ApplyWrites_HighestWins(clipboard, writes, i + 1)
   ELSE ApplyWrites_HighestWins(DictSet(clipboard, writes[i][1], writes[i][2]), writes, i + 1)

\* the assignments of writes[i..], where a value is added to the value the
\* key has
ApplyWrites_Accumulating(clipboard, writes, i) ==
   IF i > Len(writes) THEN clipboard
   ELSE ApplyWrites_Accumulating(
           DictSet(clipboard, writes[i][1],
              IF DictHas(clipboard, writes[i][1])
              THEN DictGet(clipboard, writes[i][1], None) \o "; " \o writes[i][2]
              ELSE writes[i][2]),
           writes, i + 1)

\* the assignments current_clipboard[k] = v of writes[i..], in order
ApplyWrites(clipboard, writes, i) ==
   IF i > Len(writes) THEN clipboard
   ELSE ApplyWrites(DictSet(clipboard, writes[i][1], writes[i][2]), writes, i + 1)

\* the yes/no handler without its branch for an affirmation
ContextWrites_NoOnly(facts, user_text, last_asked_slot) ==
   IF last_asked_slot = None \/ ~facts.negation THEN << >>
   ELSE << <<last_asked_slot, user_text>> >>

\* the yes/no handler that looks for an affirmation first
ContextWrites_AffirmationFirst(facts, user_text, last_asked_slot) ==
   IF last_asked_slot = None THEN << >>
   ELSE IF facts.affirmation
   THEN << <<last_asked_slot, user_text>> >>
   ELSE IF facts.negation
   THEN CASE last_asked_slot = "severity" -> << <<"severity", "mild symptoms">> >>
          [] last_asked_slot = "triggers" -> << <<"triggers", "no known triggers">> >>
          [] last_asked_slot = "sensation" -> << <<"sensation", "no pain or burning">> >>
          [] last_asked_slot = "spread" -> << <<"spread", "no spread">> >>
          [] OTHER -> << <<last_asked_slot, user_text>> >>
   ELSE << >>

\* api.py:838-865  the yes/no handler; facts is what the patterns of the
\* call find in user_text
ContextWrites(facts, user_text, last_asked_slot) ==
   IF last_asked_slot = None THEN << >>
   ELSE IF facts.negation
   THEN CASE last_asked_slot = "severity" -> << <<"severity", "mild symptoms">> >>
          [] last_asked_slot = "triggers" -> << <<"triggers", "no known triggers">> >>
          [] last_asked_slot = "sensation" -> << <<"sensation", "no pain or burning">> >>
          [] last_asked_slot = "spread" -> << <<"spread", "no spread">> >>
          [] OTHER -> << <<last_asked_slot, user_text>> >>
   ELSE IF facts.affirmation
   THEN << <<last_asked_slot, user_text>> >>
   ELSE << >>

\* the lookup where a missing entry falls back to the DEFAULT entry of
\* GENERAL_SYSTEMIC
RequiredSlots_Fallback(category, sub_group) ==
   DictGet(DictGet(SPECIALIST_QUESTIONS, category, << >>), sub_group,
           DictGet(DictGet(SPECIALIST_QUESTIONS, "GENERAL_SYSTEMIC", << >>), "DEFAULT", << >>))

\* api.py:1281  SPECIALIST_QUESTIONS.get(category, {}).get(sub_group, {})
RequiredSlots(category, sub_group) ==
   DictGet(DictGet(SPECIALIST_QUESTIONS, category, << >>), sub_group, << >>)

\* the facts of this call alone, on a dict of their own
ExtractFacts_NewDict(category, facts, user_text, current_clipboard, last_asked_slot) ==
   ApplyWrites(<< >>,
      ContextWrites(facts, user_text, last_asked_slot) \o facts.extraction[category].writes, 1)

\* api.py:838-1277  the clipboard after the yes/no handler, the
\* cross-cutting extraction and the cascade of the category: every fact is
\* assigned to a key of current_clipboard
ExtractFacts(category, facts, user_text, current_clipboard, last_asked_slot) ==
   ApplyWrites(current_clipboard,
      ContextWrites(facts, user_text, last_asked_slot) \o facts.extraction[category].writes, 1)

\* the index of the last required slot that is not a key of the clipboard
FirstMissing_Last(clipboard, required_slots) ==
   Max({i \in 1..Len(required_slots) : ~DictHas(clipboard, required_slots[i][1])}
       \cup {IF \A i \in 1..Len(required_slots) : DictHas(clipboard, required_slots[i][1])
              THEN Len(required_slots) + 1 ELSE 0})

\* api.py:1283-1284  the index of the first required slot that is not a key
\* of the clipboard, Len(required_slots) + 1 when every slot is filled
FirstMissing(clipboard, required_slots) ==
   Min({i \in 1..Len(required_slots) : ~DictHas(clipboard, required_slots[i][1])}
       \cup {Len(required_slots) + 1})

\* api.py:1259-1289  what the call returns on the clipboard it has filled
Selected(clipboard, required_slots, redirect, first_missing) ==
   IF redirect
   THEN [clipboard |-> clipboard, slot |-> "redirect", questions |-> << >>]
   ELSE IF first_missing > Len(required_slots)
   THEN [clipboard |-> clipboard, slot |-> None, questions |-> << >>]
   ELSE [clipboard |-> clipboard,
         slot |-> required_slots[first_missing][1],
         questions |-> required_slots[first_missing][2]]

\* api.py:1279-1289  the gatekeeper
Gatekeeper(clipboard, required_slots, redirect) ==
   Selected(clipboard, required_slots, redirect, FirstMissing(clipboard, required_slots))

\* api.py:827-1289 on the matches of the patterns in user_text
NextQuestion(category, sub_group, facts, user_text, current_clipboard, last_asked_slot) ==
   Gatekeeper(ExtractFacts(category, facts, user_text, current_clipboard, last_asked_slot),
              RequiredSlots(category, sub_group),
              facts.extraction[category].redirect)

\* api.py:827-1289  The result is the clipboard after the call (the dict is
\* updated in place), the returned slot (None, "redirect" or a slot name)
\* and the question list random.choice draws from (empty when the returned
\* question is None).
get_next_question(category, sub_group, user_text, current_clipboard, last_asked_slot) ==
   NextQuestion(category, sub_group, FactsOf(user_text), user_text, current_clipboard,
                last_asked_slot)
\* ------------------------------------------------------------------------
\* generate_summary
\* ------------------------------------------------------------------------

RECURSIVE Join(_, _, _)
\* sep.join(items[i..])
Join(items, sep, i) ==
   IF i > Len(items) THEN ""
   ELSE IF i = Len(items) THEN items[i]
   ELSE items[i] \o sep \o Join(items, sep, i + 1)

UpperChar(c) ==
   IF \E i \in 1..26 : CharAt(LowerCase, i) = c
   THEN CharAt(UpperCase, CHOOSE i \in 1..26 : CharAt(LowerCase, i) = c)
   ELSE c

RECURSIVE ReplaceFrom(_, _, _, _)
ReplaceFrom(s, p, old, new) ==
   IF p > Len(s) THEN ""
   ELSE (IF CharAt(s, p) = old THEN new ELSE CharAt(s, p)) \o ReplaceFrom(s, p + 1, old, new)

\* k.replace("_", " ").capitalize()
SlotTitle(k) ==
   LET spaced == ReplaceFrom(k, 1, "_", " ")
   IN IF spaced = "" THEN ""
      ELSE UpperChar(CharAt(spaced, 1)) \o Lower(SubSeq(spaced, 2, Len(spaced)))

\* api.py:1386  the keys the generic template does not list
ReservedKeys == {"duration", "severity", "category_redirect", "URGENCY_OVERRIDE"}

RECURSIVE PresentValues(_, _, _)
\* the values of those of keys[i..] that are in the clipboard, in that order
PresentValues(clipboard, keys, i) ==
   IF i > Len(keys) THEN << >>
   ELSE (IF DictHas(clipboard, keys[i]) THEN << DictGet(clipboard, keys[i], "") >> ELSE << >>)
        \o PresentValues(clipboard, keys, i + 1)

RECURSIVE GenericSymptoms_Everything(_, _)
\* the list that leaves no key out
GenericSymptoms_Everything(clipboard, i) ==
   IF i > Len(clipboard) THEN << >>
   ELSE << IF clipboard[i][2] # "Filled" THEN clipboard[i][2]
           ELSE SlotTitle(clipboard[i][1]) >>
        \o GenericSymptoms_Everything(clipboard, i + 1)

RECURSIVE GenericSymptoms(_, _)
\* api.py:1383-1387
GenericSymptoms(clipboard, i) ==
   IF i > Len(clipboard) THEN << >>
   ELSE (IF clipboard[i][1] \in ReservedKeys THEN << >>
         ELSE << IF clipboard[i][2] # "Filled" THEN clipboard[i][2]
                 ELSE SlotTitle(clipboard[i][1]) >>)
        \o GenericSymptoms(clipboard, i + 1)

\* api.py:1291-1393  the clipboard is only read
generate_summary(clipboard, final_category) ==
   LET duration == DictGet(clipboard, "duration", "unknown duration")
       severity == DictGet(clipboard, "severity", "undetermined severity")
       opt(key, before, after) ==
          IF DictHas(clipboard, key) THEN before \o DictGet(clipboard, key, "") \o after ELSE ""
   IN CASE final_category = "ORTHOPEDIC" ->
             "Patient presents with " \o DictGet(clipboard, "location", "an extremity")
             \o " injury following " \o DictGet(clipboard, "mechanism", "an injury")
             \o ", reporting " \o severity \o " pain."
             \o opt("deformity", " Noting ", ".")
             \o opt("function", " Functionality is ", ".")
        [] final_category = "GASTROINTESTINAL" ->
             LET symptoms == PresentValues(clipboard,
                                << "vomiting", "bowel", "bloating", "stool_color" >>, 1)
                 clean_symptoms == SelectSeq(symptoms, LAMBDA s : s # "Filled")
                 symptoms_text == IF clean_symptoms # << >>
                                  THEN Join(clean_symptoms, ", ", 1) ELSE "GI symptoms"
             IN "Patient reports " \o symptoms_text \o " triggered by "
                \o DictGet(clipboard, "triggers", "unknown causes")
                \o ", persisting for " \o duration \o " with " \o severity \o "."
        [] final_category = "RESPIRATORY" ->
             "Patient presents with " \o DictGet(clipboard, "onset", "onset")
             \o " respiratory symptoms, characterized by "
             \o DictGet(clipboard, "type", "cough") \o "."
             \o opt("sounds", " Breath sounds described as ", ".")
             \o (IF DictGet(clipboard, "sputum", "Filled") # "Filled"
                 THEN opt("sputum", " Sputum is ", ".") ELSE "")
        [] final_category = "NEUROLOGICAL" ->
             "Patient reports " \o DictGet(clipboard, "sensation", "neurological sensation")
             \o " involving " \o DictGet(clipboard, "location", "head/body")
             \o " for " \o duration \o "."
             \o opt("associated_symptoms", " Associated with ", ".")
             \o opt("event", " Reports consciousness event: ", ".")
        [] final_category = "DERMATOLOGICAL" ->
             "Patient presents with cutaneous symptoms on "
             \o DictGet(clipboard, "location", "skin")
             \o (IF DictGet(clipboard, "triggers", "unknown triggers") = "no known triggers"
                 THEN ". No triggers reported."
                 ELSE " triggered by " \o DictGet(clipboard, "triggers", "unknown triggers") \o ".")
             \o opt("sensation", " Reports sensation of ", ".")
             \o opt("spread", " Noting spread: ", ".")
             \o opt("infection_signs", " Possible infection signs: ", ".")
        [] OTHER ->
             LET symptoms_list == GenericSymptoms(clipboard, 1)
                 symptoms_text == IF symptoms_list # << >>
                                  THEN Join(symptoms_list, ", ", 1) ELSE "general symptoms"
             IN "Patient reports " \o symptoms_text \o " for " \o duration
                \o " with " \o severity \o "."

\* api.py:1566-1574  specialist_map.get(current_category, "General Physician")
Specialist(current_category) ==
   CASE current_category = "GASTROINTESTINAL" -> "Gastroenterologist"
     [] current_category = "NEUROLOGICAL" -> "Neurologist"
     [] current_category = "RESPIRATORY" -> "Pulmonologist"
     [] current_category = "ORTHOPEDIC" -> "Orthopedist"
     [] current_category = "DERMATOLOGICAL" -> "Dermatologist"
     [] OTHER -> "General Physician"

\* ------------------------------------------------------------------------
\* State
\* ------------------------------------------------------------------------

VARIABLES
   active_sessions,  \* api.py:1429  user_id -> session dict, for the users that have one
   consultations,    \* the rows of table consultations, in insertion order
   last_call,        \* the request handled last, what it called and what it returned
   in_flight,        \* thread -> the request it is handling, when requests overlap
   requests          \* the number of requests accepted so far

vars == <<active_sessions, consultations, last_call, in_flight, requests>>

\* the users that send requests
UserIds == {1}

\* the largest number of rows of consultations
MaxCases == 2

\* the largest number of requests of one run
MaxRequests == 4

\* no row (fetchone() returned None)
NoCase == [case_id |-> 0, status |-> None]

\* api.py:1479-1485
NewSession(category) ==
   [clipboard |-> << >>, subgroup |-> "DEFAULT", last_slot |-> None,
    category |-> category, status |-> "ACTIVE"]

\* the removal that clears the whole session store
DelSession_Everyone(sessions, user_id) == << >>

\* del active_sessions[user_id]
DelSession(sessions, user_id) ==
   [u \in (DOMAIN sessions) \ {user_id} |-> sessions[u]]

\* active_sessions[user_id] = session
PutSession(sessions, user_id, session) ==
   [u \in (DOMAIN sessions) \cup {user_id} |-> IF u = user_id THEN session ELSE sessions[u]]

\* api.py:1439-1443  SELECT ... WHERE user_id = ? AND status IN ('PENDING',
\* 'NEEDS_INFO') ORDER BY created_at DESC LIMIT 1: the rows the query may
\* return (created_at has a resolution of one second, the order of rows of
\* the same second is not specified)
SelectOpenCase(cons, user_id) ==
   LET open == {i \in 1..Len(cons) :
                   cons[i].user_id = user_id /\ cons[i].status \in {"PENDING", "NEEDS_INFO"}}
       latest == {i \in open : \A j \in open : cons[j].created_at <= cons[i].created_at}
   IN IF open = {} THEN {NoCase}
      ELSE {[case_id |-> cons[i].case_id, status |-> cons[i].status] : i \in latest}

\* api.py:1494-1497  UPDATE consultations SET ai_summary = ?, status =
\* 'PENDING' WHERE case_id = ?
UpdateReply(cons, case_id, text) ==
   [i \in 1..Len(cons) |->
      IF cons[i].case_id = case_id
      THEN [cons[i] EXCEPT !.ai_summary = "PATIENT REPLIED: " \o text, !.status = "PENDING"]
      ELSE cons[i]]

\* datetime('now') of a new row: the second of the newest row, or a later one
Now(cons, tick) ==
   IF cons = << >> THEN tick ELSE Max({cons[i].created_at : i \in 1..Len(cons)}) + tick

\* api.py:1578-1581  INSERT INTO consultations (...)
InsertCase(cons, user_id, summary, category, specialist, tick) ==
   Append(cons,
      [case_id |-> Len(cons) + 1, user_id |-> user_id, ai_summary |-> summary,
       predicted_category |-> category, urgency_score |-> "Normal",
       doctor_assigned |-> specialist, doctor_response |-> None,
       status |-> "PENDING", created_at |-> Now(cons, tick)])

\* ------------------------------------------------------------------------
\* predict_disease
\* ------------------------------------------------------------------------

\* api.py:1537-1548  the session and the answer after the redirect: second
\* is the result of the call with the empty text
Switched(session, new_cat, new_sub, second) ==
   [session |-> [session EXCEPT !.category = new_cat, !.subgroup = new_sub,
                                !.clipboard = second.clipboard],
    slot |-> second.slot,
    questions |-> second.questions]

\* api.py:1545-1548  the utterance processed again under the new category
\* on clipboard, the next question fetched with an empty text
Reprocess(session, text, facts, clipboard, new_cat, new_sub) ==
   Switched(session, new_cat, new_sub,
      get_next_question(new_cat, new_sub, "",
         NextQuestion(new_cat, new_sub, facts, text, clipboard, None).clipboard, None))

\* api.py:1538-1543  the category switched, the sub-group re-routed
Reroute(session, text, facts, clipboard, new_cat) ==
   Reprocess(session, text, facts, clipboard, new_cat, facts.subgroup[new_cat])

\* the redirect handling where the utterance is processed again on an
\* empty clipboard
HandleRedirect_FreshClipboard(session, text, facts, first) ==
   Reroute(session, text, facts, << >>, DictGet(first.clipboard, "category_redirect", None))

\* api.py:1534-1548  the redirect handling: first is the result of the
\* regular call, which returned (None, "redirect").  The category is
\* switched, the sub-group re-routed, the utterance processed again under
\* the new category and the next question fetched with an empty text, all
\* on the clipboard of the session.
HandleRedirect(session, text, facts, first) ==
   Reroute(session, text, facts, first.clipboard,
           DictGet(first.clipboard, "category_redirect", None))

\* what the logic engine leaves: the session, the slot and the questions of
\* the last call, and the calls made
EngineResult(session, routed, redirected, result) ==
   [session |-> result.session,
    slot |-> result.slot,
    questions |-> result.questions,
    calls |-> (IF session.subgroup = "DEFAULT" THEN << "get_best_subgroup" >> ELSE << >>)
              \o (IF routed THEN << "get_next_question" >> ELSE << >>)
              \o << "get_next_question" >>
              \o (IF redirected
                  THEN << "redirect", "get_best_subgroup", "get_next_question",
                          "get_next_question" >>
                  ELSE << >>)]

\* api.py:1534-1548  first is the result of the regular call
AfterRegularCall(session, text, facts, sub_group, routed, first) ==
   EngineResult(session, routed, first.slot = "redirect",
      IF first.slot = "redirect"
      THEN HandleRedirect([session EXCEPT !.subgroup = sub_group], text, facts, first)
      ELSE [session |-> [session EXCEPT !.subgroup = sub_group,
                                        !.clipboard = first.clipboard],
            slot |-> first.slot,
            questions |-> first.questions])

\* the regular call made without the last-asked slot
RegularCall_NoLastSlot(session, text, facts, sub_group, routed, backfilled) ==
   AfterRegularCall(session, text, facts, sub_group, routed,
      NextQuestion(session.category, sub_group, facts, text, backfilled, None))

\* api.py:1526-1532  the regular call, on the clipboard the backfill left
RegularCall(session, text, facts, sub_group, routed, backfilled) ==
   AfterRegularCall(session, text, facts, sub_group, routed,
      NextQuestion(session.category, sub_group, facts, text, backfilled, session.last_slot))

\* api.py:1517-1523  the sub-group is set and the backfill call made when
\* the router found a sub-group
MiniRouter(session, text, facts, new_subgroup) ==
   RegularCall(session, text, facts,
      IF new_subgroup # "DEFAULT" THEN new_subgroup ELSE session.subgroup,
      new_subgroup # "DEFAULT",
      IF new_subgroup # "DEFAULT"
      THEN NextQuestion(session.category, new_subgroup, facts, text,
                        session.clipboard, None).clipboard
      ELSE session.clipboard)

\* the logic engine where the router is asked in every turn
RunEngineOn_AlwaysRoutes(session, text, facts) ==
   MiniRouter(session, text, facts, facts.subgroup[session.category])

\* api.py:1506-1548  the logic engine on the user's session: the mini-router
\* with the backfill call, the regular call, the redirect handling.  The
\* session dict and its clipboard are updated in place.  facts is what the
\* patterns find in text.
RunEngineOn(session, text, facts) ==
   MiniRouter(session, text, facts,
      IF session.subgroup = "DEFAULT" THEN facts.subgroup[session.category] ELSE "DEFAULT")

RunEngine(session, text) == RunEngineOn(session, text, FactsOf(text))

\* the body of a 200 response; an HTTPException(500) has no body, its
\* message is the detail and locked is FALSE
Response(status, message, locked) == [status |-> status, message |-> message, locked |-> locked]

\* the locals of a request that never reached the logic engine
NoEngine == [category |-> None, sub_group |-> None, clipboard |-> << >>, slot |-> None]

\* the turn of a user whose case is PENDING, refused after the session
\* lookup of api.py:1459-1485
LockedTurn_AfterSession(sessions, loaded, cons) ==
   [outcome |-> "locked", active_sessions |-> loaded, consultations |-> cons,
    pending_update |-> FALSE, choices |-> 1,
    calls |-> << "SELECT" >>, locals |-> NoEngine,
    response |-> Response(200, "Chat Locked. Waiting for Doctor Review.", TRUE)]

\* api.py:1450-1452  the turn of a user whose case is PENDING: the chat is
\* locked, nothing is created or changed
LockedTurn(sessions, loaded, cons) ==
   [outcome |-> "locked", active_sessions |-> sessions, consultations |-> cons,
    pending_update |-> FALSE, choices |-> 1,
    calls |-> << "SELECT" >>, locals |-> NoEngine,
    response |-> Response(200, "Chat Locked. Waiting for Doctor Review.", TRUE)]

\* the decision of section 4 where the slot of the question is not
\* remembered
EngineTurn_ForgetsSlot(loaded, cons, user_id, existing_case, fail, pick, calls, engine) ==
   IF engine.slot # None
   THEN [outcome |-> "question",
         active_sessions |->
            PutSession(loaded, user_id, engine.session),
         consultations |-> cons, pending_update |-> FALSE,
         choices |-> Len(engine.questions),
         calls |-> calls \o engine.calls,
         locals |-> [category |-> engine.session.category,
                     sub_group |-> engine.session.subgroup,
                     clipboard |-> engine.session.clipboard,
                     slot |-> engine.slot],
         response |-> Response(200, engine.questions[pick], FALSE)]
   ELSE [outcome |-> "complete",
         active_sessions |-> PutSession(loaded, user_id, engine.session),
         consultations |-> cons,
         pending_update |-> existing_case.status = "NEEDS_INFO" /\ "update_execute" \notin fail,
         choices |-> 1,
         calls |-> calls \o engine.calls,
         locals |-> [category |-> engine.session.category,
                     sub_group |-> engine.session.subgroup,
                     clipboard |-> engine.session.clipboard,
                     slot |-> engine.slot],
         response |-> Response(200, "", FALSE)]

\* the decision of section 4 where the wording drawn is kept as the slot
\* of the turn
EngineTurn_DrawnWording(loaded, cons, user_id, existing_case, fail, pick, calls, engine) ==
   IF engine.slot # None
   THEN [outcome |-> "question",
         active_sessions |->
            PutSession(loaded, user_id, [engine.session EXCEPT !.last_slot = engine.slot]),
         consultations |-> cons, pending_update |-> FALSE,
         choices |-> Len(engine.questions),
         calls |-> calls \o engine.calls,
         locals |-> [category |-> engine.session.category,
                     sub_group |-> engine.session.subgroup,
                     clipboard |-> engine.session.clipboard,
                     slot |-> engine.questions[pick]],
         response |-> Response(200, engine.questions[pick], FALSE)]
   ELSE [outcome |-> "complete",
         active_sessions |-> PutSession(loaded, user_id, engine.session),
         consultations |-> cons,
         pending_update |-> existing_case.status = "NEEDS_INFO" /\ "update_execute" \notin fail,
         choices |-> 1,
         calls |-> calls \o engine.calls,
         locals |-> [category |-> engine.session.category,
                     sub_group |-> engine.session.subgroup,
                     clipboard |-> engine.session.clipboard,
                     slot |-> engine.slot],
         response |-> Response(200, "", FALSE)]

\* api.py:1550-1558, 1561  the decision of section 4 on what the logic
\* engine returned: a question is sent and its slot remembered, or the turn
\* goes on to the report
EngineTurn(loaded, cons, user_id, existing_case, fail, pick, calls, engine) ==
   IF engine.slot # None
   THEN [outcome |-> "question",
         active_sessions |->
            PutSession(loaded, user_id, [engine.session EXCEPT !.last_slot = engine.slot]),
         consultations |-> cons, pending_update |-> FALSE,
         choices |-> Len(engine.questions),
         calls |-> calls \o engine.calls,
         locals |-> [category |-> engine.session.category,
                     sub_group |-> engine.session.subgroup,
                     clipboard |-> engine.session.clipboard,
                     slot |-> engine.slot],
         response |-> Response(200, engine.questions[pick], FALSE)]
   ELSE [outcome |-> "complete",
         active_sessions |-> PutSession(loaded, user_id, engine.session),
         consultations |-> cons,
         pending_update |-> existing_case.status = "NEEDS_INFO" /\ "update_execute" \notin fail,
         choices |-> 1,
         calls |-> calls \o engine.calls,
         locals |-> [category |-> engine.session.category,
                     sub_group |-> engine.session.subgroup,
                     clipboard |-> engine.session.clipboard,
                     slot |-> engine.slot],
         response |-> Response(200, "", FALSE)]

\* api.py:1437-1548  the lock check, the relay of a reply to a NEEDS_INFO
\* case and the logic engine; loaded is active_sessions after the session
\* lookup or creation of api.py:1459-1485, created tells that the session
\* was created
CheckedTurn(sessions, loaded, created, cons, user_id, text, existing_case, fail, pick) ==
   IF "select" \in fail
   THEN [outcome |-> "error", active_sessions |-> sessions, consultations |-> cons,
         pending_update |-> FALSE, choices |-> 1,
         calls |-> << "SELECT failed" >>, locals |-> NoEngine,
         response |-> Response(500, "DB error checking locks", FALSE)]
   ELSE IF existing_case.status = "PENDING"
   THEN LockedTurn(sessions, loaded, cons)
   ELSE IF /\ existing_case.status = "NEEDS_INFO"
           /\ fail \cap {"update_execute", "update_commit"} = {}
   THEN [outcome |-> "replied",
         active_sessions |-> DelSession(loaded, user_id),
         consultations |-> UpdateReply(cons, existing_case.case_id, text),
         pending_update |-> FALSE, choices |-> 1,
         calls |-> << "SELECT" >> \o (IF created THEN << "PredictCategory" >> ELSE << >>)
                   \o << "UPDATE" >>,
         locals |-> NoEngine,
         response |-> Response(200, "Reply sent to doctor! Please wait.", TRUE)]
   ELSE EngineTurn(loaded, cons, user_id, existing_case, fail, pick,
           << "SELECT" >>
           \o (IF created THEN << "PredictCategory" >> ELSE << >>)
           \o (IF existing_case.status = "NEEDS_INFO" THEN << "UPDATE failed" >> ELSE << >>),
           RunEngine(loaded[user_id], text))

\* api.py:1431-1558  predict_disease up to the decision of section 4: the
\* lock check, the session lookup or creation, the relay of a reply to a
\* NEEDS_INFO case, the logic engine and, when a question was selected, the
\* response.  fail is the set of record-store calls that raise in this
\* request: "select" (api.py:1439), "update_execute" or "update_commit"
\* (api.py:1494, 1498), "insert" (api.py:1578).  pick is the index
\* random.choice (api.py:1287) draws.  outcome "complete" leaves the INSERT
\* of api.py:1576 to do; pending_update tells that the UPDATE is executed
\* but not committed on the request's connection.
BeginTurn(sessions, cons, user_id, text, existing_case, fail, pick) ==
   CheckedTurn(sessions,
      IF user_id \notin DOMAIN sessions
      THEN PutSession(sessions, user_id, NewSession(FactsOf(text).category))
      ELSE sessions,
      user_id \notin DOMAIN sessions,
      cons, user_id, text, existing_case, fail, pick)

\* api.py:1583-1596  the end of the request: inserted is the table after
\* the INSERT
Finished(sessions, cons, user_id, begun, fail, specialist, inserted) ==
   IF "insert" \in fail
   THEN [begun EXCEPT !.outcome = "error",
            !.calls = @ \o << "generate_summary", "INSERT failed" >>,
            !.active_sessions = sessions, !.consultations = cons,
            !.response = Response(500, "DB error saving consultation", FALSE)]
   ELSE IF user_id \notin DOMAIN sessions
   THEN [begun EXCEPT !.outcome = "error",
            !.calls = @ \o << "generate_summary", "INSERT" >>,
            !.active_sessions = sessions, !.consultations = inserted,
            !.response = Response(500, "KeyError", FALSE)]
   ELSE [begun EXCEPT
            !.calls = @ \o << "generate_summary", "INSERT" >>,
            !.active_sessions = DelSession(sessions, user_id),
            !.consultations = inserted,
            !.response = Response(200,
               "Diagnosis Complete. I have sent your report to the " \o specialist \o ".",
               TRUE)]

\* api.py:1560-1596  section 4, scenario B, of predict_disease for a turn
\* begun with outcome "complete": the summary, the INSERT with its commit
\* (which also commits a pending UPDATE of the same connection), the
\* removal of the session.  A failure closes the connection, which rolls
\* the open transaction back.
FinishTurn(sessions, cons, user_id, text, existing_case, begun, fail, tick) ==
   Finished(sessions, cons, user_id, begun, fail,
      Specialist(begun.locals.category),
      InsertCase(IF begun.pending_update
                 THEN UpdateReply(cons, existing_case.case_id, text) ELSE cons,
                 user_id,
                 generate_summary(begun.locals.clipboard, begun.locals.category),
                 begun.locals.category,
                 Specialist(begun.locals.category),
                 tick))

\* the request after section 3: the turn goes on to the report or is over
Continued(user_id, text, existing_case, fail, tick, begun) ==
   IF begun.outcome = "complete"
   THEN FinishTurn(begun.active_sessions, begun.consultations, user_id, text,
                   existing_case, begun, fail, tick)
   ELSE begun

\* api.py:1431-1596  one request to /predict, handled without interruption
Turn(sessions, cons, user_id, text, existing_case, fail, pick, tick) ==
   Continued(user_id, text, existing_case, fail, tick,
      BeginTurn(sessions, cons, user_id, text, existing_case, fail, pick))

\* the choices of a request whose SELECT returned existing_case and whose
\* calls of early fail, begun being what sections 1 to 3 make of it
InputsAfter(existing_case, early, begun) ==
   {[existing_case |-> existing_case, fail |-> early \cup late,
     pick |-> pick, tick |-> tick] :
       pick \in 1..begun.choices,
       late \in IF begun.outcome = "complete" THEN {{}, {"insert"}} ELSE {{}},
       tick \in IF begun.outcome = "complete" THEN {0, 1} ELSE {0}}

\* The choices open to one request: the row the SELECT returns, the calls
\* that fail among those the request makes, the question drawn, and whether
\* the second of the clock has changed since the newest row was inserted.
TurnInputs(sessions, cons, user_id, text) ==
   UNION {
      UNION {
         InputsAfter(existing_case, early,
                     BeginTurn(sessions, cons, user_id, text, existing_case, early, 1))
         : early \in {{}, {"select"}}
                     \cup (IF existing_case.status = "NEEDS_INFO"
                           THEN {{"update_execute"}, {"update_commit"}} ELSE {}) }
      : existing_case \in SelectOpenCase(cons, user_id) }

\* ------------------------------------------------------------------------
\* doctor_reply
\* ------------------------------------------------------------------------

\* api.py:120-138  generate_patient_sentence
FrequencyMap ==
   << <<"Morning", "once a day (morning)">>, <<"Night", "once a day (night)">>,
      <<"Morning-Night", "2 times a day">>,
      <<"Morning-Afternoon-Night", "3 times a day">>,
      <<"Once", "once a day">>, <<"Twice", "twice a day">> >>

RECURSIVE PatientLines(_, _)
PatientLines(meds, i) ==
   IF i > Len(meds) THEN << >>
   ELSE << "Take " \o meds[i].name \o " " \o DictGet(FrequencyMap, meds[i].timing, meds[i].timing)
           \o " " \o meds[i].instruction \o " for " \o meds[i].duration \o "." >>
        \o PatientLines(meds, i + 1)

generate_patient_sentence(meds) == Join(PatientLines(meds, 1), "\n", 1)

\* the replies a doctor sends: a prescription or a question to the patient
DoctorReplies ==
   { [response_type |-> "MEDICINE", text |-> "",
      prescription |-> << [name |-> "Dolo 650mg", timing |-> "Morning-Night",
                           instruction |-> "after food", duration |-> "3 days"] >>],
     [response_type |-> "QUERY", text |-> "How high is the fever?", prescription |-> << >>] }

\* api.py:1603-1610
ReplyStatus(reply) == IF reply.response_type = "MEDICINE" THEN "COMPLETED" ELSE "NEEDS_INFO"

ReplyMessage(reply) ==
   IF reply.response_type = "MEDICINE" THEN generate_patient_sentence(reply.prescription)
   ELSE reply.text

\* api.py:1612-1615  UPDATE consultations SET doctor_response = ?, status = ?
\* WHERE case_id = ?
UpdateDoctor(cons, case_id, reply) ==
   [i \in 1..Len(cons) |->
      IF cons[i].case_id = case_id
      THEN [cons[i] EXCEPT !.doctor_response = ReplyMessage(reply), !.status = ReplyStatus(reply)]
      ELSE cons[i]]

\* ------------------------------------------------------------------------
\* The handlers as actions
\* ------------------------------------------------------------------------

Call(op, user_id, text, existing_case, result) ==
   [op |-> op, user_id |-> user_id, text |-> text, existing_case |-> existing_case,
    outcome |-> result.outcome, calls |-> result.calls, locals |-> result.locals,
    response |-> result.response]

NoCall ==
   Call("none", 0, "", NoCase,
        [outcome |-> "none", calls |-> << >>, locals |-> NoEngine,
         response |-> Response(0, "", FALSE)])

Init ==
   /\ active_sessions = << >>
   /\ consultations = << >>
   /\ last_call = NoCall
   /\ in_flight = << >>
   /\ requests = 0

\* the request has returned result
Handled(user_id, text, existing_case, result) ==
   /\ Len(result.consultations) <= MaxCases
   /\ active_sessions' = result.active_sessions
   /\ consultations' = result.consultations
   /\ last_call' = Call("predict", user_id, text, existing_case, result)

\* POST /predict, one request at a time
predict_disease(user_id, text) ==
   /\ requests < MaxRequests
   /\ \E input \in TurnInputs(active_sessions, consultations, user_id, text) :
         Handled(user_id, text, input.existing_case,
            Turn(active_sessions, consultations, user_id, text,
                 input.existing_case, input.fail, input.pick, input.tick))
   /\ requests' = requests + 1
   /\ UNCHANGED in_flight

\* POST /doctor_reply; the UPDATE may fail (api.py:1617-1620)
doctor_reply(case_id, reply) ==
   /\ requests < MaxRequests
   /\ \E failed \in BOOLEAN :
         /\ consultations' = IF failed THEN consultations
                             ELSE UpdateDoctor(consultations, case_id, reply)
         /\ last_call' = Call("doctor_reply", 0, reply.text, NoCase,
                              [outcome |-> IF failed THEN "error" ELSE "replied",
                               calls |-> << IF failed THEN "UPDATE failed" ELSE "UPDATE" >>,
                               locals |-> NoEngine,
                               response |-> IF failed
                                            THEN Response(500, "Error in doctor_reply", FALSE)
                                            ELSE Response(200, "Reply sent!", FALSE)])
   /\ requests' = requests + 1
   /\ UNCHANGED <<active_sessions, in_flight>>

Next ==
   \/ \E user_id \in UserIds : \E i \in 1..Len(Utterances) :
         predict_disease(user_id, Utterances[i])
   \/ \E case_id \in 1..MaxCases : \E reply \in DoctorReplies : doctor_reply(case_id, reply)

Spec == Init /\ [][Next]_vars

\* ------------------------------------------------------------------------
\* get_next_question called on its own
\* ------------------------------------------------------------------------

\* the largest number of calls of one run
MaxCalls == 2

\* a new session of any category for user 1 (api.py:1479-1485)
EngineInit ==
   /\ active_sessions \in {PutSession(<< >>, 1, NewSession(category)) : category \in Categories}
   /\ consultations = << >>
   /\ last_call = NoCall
   /\ in_flight = << >>
   /\ requests = 0

\* api.py:1556  the session after the call: the slot of a selected question
\* is remembered
EngineReturned(user_id, user_text, session, result) ==
   /\ active_sessions' =
         PutSession(active_sessions, user_id,
            [session EXCEPT !.clipboard = result.clipboard,
                            !.last_slot = IF result.slot \notin {None, "redirect"}
                                          THEN result.slot ELSE @])
   /\ last_call' =
         Call("get_next_question", user_id, user_text, NoCase,
              [outcome |-> IF result.slot \notin {None, "redirect"} THEN "question"
                           ELSE IF result.slot = None THEN "complete" ELSE "redirect",
               calls |-> << "get_next_question" >>,
               locals |-> [category |-> session.category,
                           sub_group |-> session.subgroup,
                           clipboard |-> result.clipboard, slot |-> result.slot],
               response |-> Response(0, "", FALSE)])

\* api.py:1526-1532, 1556  one call of get_next_question on the user's
\* session
EngineCall(user_id, user_text) ==
   /\ requests < MaxCalls
   /\ user_id \in DOMAIN active_sessions
   /\ EngineReturned(user_id, user_text, active_sessions[user_id],
         get_next_question(active_sessions[user_id].category,
                           active_sessions[user_id].subgroup, user_text,
                           active_sessions[user_id].clipboard,
                           active_sessions[user_id].last_slot))
   /\ requests' = requests + 1
   /\ UNCHANGED <<consultations, in_flight>>

NextEngine == \E i \in 1..Len(EngineTexts) : EngineCall(1, EngineTexts[i])

SpecEngine == EngineInit /\ [][NextEngine]_vars

\* ------------------------------------------------------------------------
\* get_next_question on the answer to a question of the bank
\* ------------------------------------------------------------------------

\* api.py:1552-1558  the session of a patient who was asked the k-th slot
\* of (category, sub_group) after answering "Yes" to the questions before
AskedSession(category, sub_group, k) ==
   [NewSession(category) EXCEPT
      !.subgroup = sub_group,
      !.last_slot = RequiredSlots(category, sub_group)[k][1],
      !.clipboard = [i \in 1..(k - 1) |->
                       <<RequiredSlots(category, sub_group)[i][1], "Yes">>]]

\* the sessions in which a question of the bank has been asked
AskedSessions ==
   UNION {UNION {{AskedSession(SPECIALIST_QUESTIONS[c][1], SPECIALIST_QUESTIONS[c][2][g][1], k) :
                     k \in 1..Len(SPECIALIST_QUESTIONS[c][2][g][2])} :
                 g \in 1..Len(SPECIALIST_QUESTIONS[c][2])} :
          c \in 1..Len(SPECIALIST_QUESTIONS)}

AnswerInit ==
   /\ active_sessions \in {PutSession(<< >>, 1, session) : session \in AskedSessions}
   /\ consultations = << >>
   /\ last_call = NoCall
   /\ in_flight = << >>
   /\ requests = 0

NextAnswer == \E i \in 1..Len(AnswerTexts) : EngineCall(1, AnswerTexts[i])

SpecAnswer == AnswerInit /\ [][NextAnswer]_vars

\* ------------------------------------------------------------------------
\* Requests of a patient who was asked a question of the bank
\* ------------------------------------------------------------------------

\* the request that carries the reply, and the requests after it
ReplyTurn(user_id, text) ==
   /\ requests < MaxCalls
   /\ predict_disease(user_id, text)

NextReply == \E i \in 1..Len(ReplyTexts) : ReplyTurn(1, ReplyTexts[i])

SpecReply == AnswerInit /\ [][NextReply]_vars

\* ------------------------------------------------------------------------
\* get_next_question with and without a last-asked slot
\* ------------------------------------------------------------------------

\* the session of user 1 is new (api.py:1479-1485, last_slot is None) or was
\* asked a question of the bank
ResolverInit ==
   /\ active_sessions \in {PutSession(<< >>, 1, session) :
                               session \in AskedSessions \cup {NewSession(category) :
                                                                 category \in Categories}}
   /\ consultations = << >>
   /\ last_call = NoCall
   /\ in_flight = << >>
   /\ requests = 0

NextResolver == \E i \in 1..Len(ReplyTexts) : EngineCall(1, ReplyTexts[i])

SpecResolver == ResolverInit /\ [][NextResolver]_vars

\* ------------------------------------------------------------------------
\* generate_summary on the clipboard get_next_question leaves
\* ------------------------------------------------------------------------

\* a category name without keyword table
OtherCategory == "CARDIAC"

\* the call has returned summary; the session of the user is what it was
Summarised(user_id, session, final_category, summary) ==
   /\ last_call' =
         Call("generate_summary", user_id, "", NoCase,
              [outcome |-> "none",
               calls |-> << "generate_summary" >>,
               locals |-> [category |-> final_category, sub_group |-> session.subgroup,
                           clipboard |-> session.clipboard, slot |-> None],
               response |-> Response(0, summary, FALSE)])
   /\ requests' = requests + 1
   /\ UNCHANGED <<active_sessions, consultations, in_flight>>

\* api.py:1563  generate_summary(clipboard, final_category) on the clipboard
\* of the user's session
SummaryCall(user_id, final_category) ==
   /\ requests < MaxCalls
   /\ user_id \in DOMAIN active_sessions
   /\ Summarised(user_id, active_sessions[user_id], final_category,
                 generate_summary(active_sessions[user_id].clipboard, final_category))

NextSummary ==
   \/ \E i \in 1..Len(EngineTexts) : EngineCall(1, EngineTexts[i])
   \/ \E final_category \in Categories \cup {OtherCategory} : SummaryCall(1, final_category)

SpecSummary == EngineInit /\ [][NextSummary]_vars

\* ------------------------------------------------------------------------
\* The category heuristic and get_best_subgroup
\* ------------------------------------------------------------------------

\* the call has returned: category is the category found or given,
\* sub_group the sub-group found
Routed(op, user_text, category, sub_group) ==
   /\ last_call' =
         Call(op, 1, user_text, NoCase,
              [outcome |-> "none",
               calls |-> << op >>,
               locals |-> [NoEngine EXCEPT !.category = category, !.sub_group = sub_group],
               response |-> Response(0, "", FALSE)])
   /\ requests' = requests + 1
   /\ UNCHANGED <<active_sessions, consultations, in_flight>>

\* api.py:1463-1476  the category heuristic on one utterance
ClassifierCall(user_text) ==
   /\ requests < MaxCalls
   /\ Routed("PredictCategory", user_text, FactsOf(user_text).category, None)

\* api.py:763-825  get_best_subgroup(user_text, category)
RouterCall(user_text, category) ==
   /\ requests < MaxCalls
   /\ Routed("get_best_subgroup", user_text, category,
             IF category \in Categories THEN FactsOf(user_text).subgroup[category]
             ELSE get_best_subgroup(user_text, category))

NextRouting ==
   \E i \in 1..Len(RouterTexts) :
      \/ ClassifierCall(RouterTexts[i])
      \/ \E category \in Categories \cup {OtherCategory} : RouterCall(RouterTexts[i], category)

SpecRouting == Init /\ [][NextRouting]_vars

\* ------------------------------------------------------------------------
\* Two requests to /predict handled by two threads
\* ------------------------------------------------------------------------

\* FastAPI runs a def handler in a thread pool; predict_disease takes no
\* lock (api.py:1429-1488).  A thread handles one request.  It yields at
\* the INSERT of api.py:1578: StartTurn is the handler up to there,
\* EndTurn the rest.  The record store does not fail here.
Threads == {1, 2}

\* the request of a thread: begun is the result of the handler so far
InFlight(user_id, text, existing_case, begun) ==
   [user_id |-> user_id, text |-> text, existing_case |-> existing_case,
    begun |-> begun, done |-> begun.outcome # "complete"]

\* the thread has run the handler up to the INSERT.  The clipboard is one
\* dict, shared with the other thread that holds the session of this user
\* (api.py:1488, 1508)
Started(thread, user_id, text, existing_case, begun) ==
   /\ active_sessions' = begun.active_sessions
   /\ consultations' = begun.consultations
   /\ in_flight' =
         [t \in DOMAIN in_flight \cup {thread} |->
            IF t = thread THEN InFlight(user_id, text, existing_case, begun)
            ELSE IF /\ ~in_flight[t].done
                    /\ in_flight[t].user_id = user_id
                    /\ user_id \in DOMAIN active_sessions
                    /\ begun.outcome \in {"question", "complete"}
            THEN [in_flight[t] EXCEPT !.begun.locals.clipboard = begun.locals.clipboard]
            ELSE in_flight[t]]
   /\ last_call' = IF begun.outcome # "complete"
                   THEN Call("predict", user_id, text, existing_case, begun)
                   ELSE last_call

StartTurn(thread, user_id, text) ==
   /\ thread \notin DOMAIN in_flight
   /\ requests < MaxRequests
   /\ \E input \in {i \in TurnInputs(active_sessions, consultations, user_id, text) :
                       i.fail = {} /\ i.tick = 0} :
         Started(thread, user_id, text, input.existing_case,
            BeginTurn(active_sessions, consultations, user_id, text,
                      input.existing_case, {}, input.pick))
   /\ requests' = requests + 1

\* the thread has run the rest of the handler
Ended(thread, request, result) ==
   /\ active_sessions' = result.active_sessions
   /\ consultations' = result.consultations
   /\ in_flight' = [in_flight EXCEPT ![thread] = [@ EXCEPT !.begun = result, !.done = TRUE]]
   /\ last_call' = Call("predict", request.user_id, request.text,
                        request.existing_case, result)

EndTurn(thread) ==
   /\ thread \in DOMAIN in_flight
   /\ ~in_flight[thread].done
   /\ \E tick \in {0, 1} :
         Ended(thread, in_flight[thread],
            FinishTurn(active_sessions, consultations, in_flight[thread].user_id,
                       in_flight[thread].text, in_flight[thread].existing_case,
                       in_flight[thread].begun, {}, tick))
   /\ UNCHANGED requests

NextConc ==
   \E thread \in Threads :
      \/ \E user_id \in UserIds : \E i \in 1..Len(Utterances) :
            StartTurn(thread, user_id, Utterances[i])
      \/ EndTurn(thread)

SpecConc == Init /\ [][NextConc]_vars

\* ------------------------------------------------------------------------
\* Two patients, their requests handled by two threads
\* ------------------------------------------------------------------------

\* api.py:1459, 1488  query.user_id of the requests: two patients
Patients == {1, 2}

NextPatients ==
   \E thread \in Threads :
      \/ \E user_id \in Patients : \E i \in 1..Len(Utterances) :
            StartTurn(thread, user_id, Utterances[i])
      \/ EndTurn(thread)

SpecPatients == Init /\ [][NextPatients]_vars

\* ------------------------------------------------------------------------
\* Properties
\* ------------------------------------------------------------------------

\* the urgency level of a clipboard, None when it has none
UrgencyLevel(clipboard) == DictGet(clipboard, "URGENCY_OVERRIDE", None)

UrgencyRank(level) ==
   CASE level = "CRITICAL" -> 2
     [] level = "HIGH" -> 1
     [] OTHER -> 0

Called(call, name) == \E i \in 1..Len(call.calls) : call.calls[i] = name

\* the logic engine ran in the request
EngineRan(call) == Called(call, "get_next_question")

\* the lock check of the request returned a row of this status
LockCheckFound(call, status) ==
   /\ call.op = "predict"
   /\ call.calls[1] = "SELECT"
   /\ call.existing_case.status = status

\* this step is a request to /predict of a user who has a session, and the
\* logic engine runs on that session
TurnOnSession ==
   /\ requests' = requests + 1
   /\ last_call'.op = "predict"
   /\ last_call'.user_id \in DOMAIN active_sessions
   /\ EngineRan(last_call')

\* the clipboard of that session before the step
ClipboardBefore == active_sessions[last_call'.user_id].clipboard

\* the clipboard at the end of the logic engine of the step
ClipboardAfter == last_call'.locals.clipboard

\* C1: when a patient turn completes the intake with URGENCY_OVERRIDE HIGH
\* or CRITICAL in the clipboard, the case created in the record store
\* carries that level as its urgency.
C1_UrgencyHandedOver ==
   (/\ last_call.op = "predict"
    /\ last_call.outcome = "complete"
    /\ UrgencyLevel(last_call.locals.clipboard) \in {"HIGH", "CRITICAL"})
   => consultations[Len(consultations)].urgency_score
         = UrgencyLevel(last_call.locals.clipboard)

\* C2: a patient turn whose lock check finds the user's most recent open
\* case PENDING is refused: the response is locked and carries no question,
\* no routing or extraction runs, and the session store and the record
\* store are left as they were.
C2_PendingRefused ==
   [][(requests' = requests + 1 /\ LockCheckFound(last_call', "PENDING"))
      => /\ last_call'.response
               = Response(200, "Chat Locked. Waiting for Doctor Review.", TRUE)
         /\ last_call'.calls = << "SELECT" >>
         /\ last_call'.locals = NoEngine
         /\ active_sessions' = active_sessions
         /\ consultations' = consultations]_vars

\* a locked turn of a user who has no session and a PENDING case
C2_Witness ==
   /\ last_call.op = "predict"
   /\ last_call.outcome = "locked"
   /\ last_call.existing_case.status = "PENDING"
   /\ last_call.user_id \notin DOMAIN active_sessions

\* C3: a patient turn whose lock check finds the user's open case NEEDS_INFO
\* is relayed as a reply (the case is PENDING again and holds the reply),
\* the dialogue engine does not run on the utterance, and after the turn
\* the user has no session.
C3_ReplyRelayed ==
   LockCheckFound(last_call, "NEEDS_INFO")
   => /\ \E i \in 1..Len(consultations) :
            /\ consultations[i].case_id = last_call.existing_case.case_id
            /\ consultations[i].status = "PENDING"
            /\ consultations[i].ai_summary = "PATIENT REPLIED: " \o last_call.text
      /\ ~Called(last_call, "get_best_subgroup")
      /\ ~EngineRan(last_call)
      /\ last_call.user_id \notin DOMAIN active_sessions

\* the runs of the two finished requests one after the other, first the
\* request of thread a, from the initial state: the final session store,
\* the final table and the two responses
SerialRuns(a, b) ==
   UNION {
      LET ra == Turn(<< >>, << >>, in_flight[a].user_id, in_flight[a].text,
                     ia.existing_case, {}, ia.pick, ia.tick)
      IN {LET rb == Turn(ra.active_sessions, ra.consultations, in_flight[b].user_id,
                         in_flight[b].text, ib.existing_case, {}, ib.pick, ib.tick)
          IN [active_sessions |-> rb.active_sessions,
              consultations |-> rb.consultations,
              responses |-> [t \in {a, b} |-> IF t = a THEN ra.response ELSE rb.response]]
          : ib \in {i \in TurnInputs(ra.active_sessions, ra.consultations,
                                     in_flight[b].user_id, in_flight[b].text) :
                       i.fail = {}}}
      : ia \in {i \in TurnInputs(<< >>, << >>, in_flight[a].user_id, in_flight[a].text) :
                   i.fail = {}}}

\* both threads have finished their request
BothDone == DOMAIN in_flight = Threads /\ \A t \in Threads : in_flight[t].done

\* C4: two overlapping patient turns of one user leave the session store,
\* the case records and the responses that some execution of the two turns
\* one after the other leaves.
C4_TurnsSerialised ==
   BothDone
   => \E order \in {<<1, 2>>, <<2, 1>>} :
         [active_sessions |-> active_sessions,
          consultations |-> consultations,
          responses |-> [t \in Threads |-> in_flight[t].begun.response]]
            \in SerialRuns(order[1], order[2])

\* the sub-groups the router of a category can answer (api.py:763-825)
RouterSubgroups(category) ==
   {KEYWORDS(category)[i][1] : i \in 1..Len(KEYWORDS(category))} \cup {"DEFAULT"}

\* C5: the question bank in force has, for each of the six categories, an
\* entry with at least one slot for every sub-group of the category's
\* router and for DEFAULT; so a turn whose clipboard fills none of the slots
\* of the session's sub-group is answered with a question.
C5_QuestionBankComplete ==
   /\ \A category \in Categories : \A sub_group \in RouterSubgroups(category) :
         RequiredSlots(category, sub_group) # << >>
   /\ (/\ last_call.op = "predict"
       /\ EngineRan(last_call)
       /\ LET required_slots == RequiredSlots(last_call.locals.category,
                                              last_call.locals.sub_group)
          IN \A i \in 1..Len(required_slots) :
                ~DictHas(last_call.locals.clipboard, required_slots[i][1]))
      => last_call.outcome = "question"

\* the utterance of the scenario, sent by a user without a session, reaches
\* the logic engine
C6_Scenario ==
   /\ last_call.op = "predict"
   /\ last_call.text = "I have severe stomach pain and vomiting for 2 days"
   /\ Called(last_call, "PredictCategory")
   /\ EngineRan(last_call)

C6_Extracted ==
   /\ last_call.locals.category = "GASTROINTESTINAL"
   /\ last_call.locals.sub_group = "STOMACH"
   /\ {"duration", "severity", "vomiting"} \subseteq DictKeys(last_call.locals.clipboard)

C7_UrgencyOnlyRaised ==
   [][TurnOnSession
      => UrgencyRank(UrgencyLevel(ClipboardAfter))
            >= UrgencyRank(UrgencyLevel(ClipboardBefore))]_vars

\* the rule of the category for this slot sets URGENCY_OVERRIDE on the text
SetsUrgency(text, category, slot) ==
   \E i \in 1..Len(RULES(category)) :
      /\ RULES(category)[i].slot = slot
      /\ Len(RuleWrites(Lower(text), RULES(category)[i])) = 2

\* C8: when a CRITICAL rule and a HIGH rule of the category fire on one
\* utterance, URGENCY_OVERRIDE after the call is the level of the firing
\* rule that is last in the order bleeding (CRITICAL), infection_signs
\* (HIGH), systemic (CRITICAL) for DERMATOLOGICAL, and urine_output
\* (CRITICAL), bleeding_check (HIGH) for GENERAL_SYSTEMIC.
C8_LastFiringRuleWins ==
   last_call.op = "get_next_question"
   => LET text == last_call.text
          level == UrgencyLevel(last_call.locals.clipboard)
          bleeding == SetsUrgency(text, "DERMATOLOGICAL", "bleeding")
          infection_signs == SetsUrgency(text, "DERMATOLOGICAL", "infection_signs")
          systemic == SetsUrgency(text, "DERMATOLOGICAL", "systemic")
          heatstroke == SetsUrgency(text, "GENERAL_SYSTEMIC", "urine_output")
          bleeding_check == SetsUrgency(text, "GENERAL_SYSTEMIC", "bleeding_check")
      IN /\ (/\ last_call.locals.category = "DERMATOLOGICAL"
             /\ infection_signs
             /\ bleeding \/ systemic)
            => level = IF systemic THEN "CRITICAL" ELSE "HIGH"
         /\ (/\ last_call.locals.category = "GENERAL_SYSTEMIC"
             /\ heatstroke
             /\ bleeding_check)
            => level = "HIGH"

\* the bleeding rule and the infection rule fired on one utterance, and the
\* level is HIGH
C8_Witness ==
   /\ last_call.op = "get_next_question"
   /\ last_call.locals.category = "DERMATOLOGICAL"
   /\ SetsUrgency(last_call.text, "DERMATOLOGICAL", "bleeding")
   /\ SetsUrgency(last_call.text, "DERMATOLOGICAL", "infection_signs")
   /\ ~SetsUrgency(last_call.text, "DERMATOLOGICAL", "systemic")
   /\ UrgencyLevel(last_call.locals.clipboard) = "HIGH"

\* the keys the calls of get_next_question of this step assign: the slot
\* asked last and the keys of the extraction under the category before and
\* after the step
KeysWritten ==
   LET session == active_sessions[last_call'.user_id]
       facts == FactsOf(last_call'.text)
       before == facts.extraction[session.category].writes
       after == facts.extraction[last_call'.locals.category].writes
   IN {session.last_slot} \cup {before[i][1] : i \in 1..Len(before)}
         \cup {after[i][1] : i \in 1..Len(after)}

\* C9: a turn removes no key from the clipboard of the session, and the
\* value of a key changes only when the turn assigns that key.
C9_ClipboardOnlyGrows ==
   [][TurnOnSession
      => /\ DictKeys(ClipboardBefore) \subseteq DictKeys(ClipboardAfter)
         /\ \A k \in DictKeys(ClipboardBefore) :
               DictGet(ClipboardAfter, k, None) # DictGet(ClipboardBefore, k, None)
                  => k \in KeysWritten]_vars

\* a third request finds a session whose clipboard holds several facts and
\* leaves one more
C9_Witness ==
   /\ last_call.op = "predict"
   /\ last_call.outcome = "question"
   /\ requests >= 2
   /\ ~Called(last_call, "PredictCategory")
   /\ Len(last_call.locals.clipboard) >= 3

\* what api.py:870-874 stores for a text with "3 days": the match of
\* (\d+|a|an|...)\s*(day|week|...), which ends before the plural s
ThreeDays == "3 day"

\* this step is a turn on a GENERAL_SYSTEMIC session that holds the
\* duration of three days, and the turn redirects to GASTROINTESTINAL
C10_Redirect ==
   /\ TurnOnSession
   /\ active_sessions[last_call'.user_id].category = "GENERAL_SYSTEMIC"
   /\ DictGet(ClipboardBefore, "duration", None) = ThreeDays
   /\ Called(last_call', "redirect")
   /\ last_call'.locals.category = "GASTROINTESTINAL"

DurationIn(text) ==
   DictGet(FactsOf(text).extraction.GASTROINTESTINAL.writes, "duration", None)

MissingSlots(category, sub_group, clipboard) ==
   {RequiredSlots(category, sub_group)[i][1] : i \in 1..Len(RequiredSlots(category, sub_group))}
      \ DictKeys(clipboard)

\* this step is a turn on a session whose category and sub-group are the
\* same before and after the turn
TurnOnSamePair ==
   /\ TurnOnSession
   /\ active_sessions[last_call'.user_id].category = last_call'.locals.category
   /\ active_sessions[last_call'.user_id].subgroup = last_call'.locals.sub_group

\* for every slot of every entry of the question bank, the answer "Yes" to
\* the question of that slot puts the slot into an empty clipboard
BankFillable ==
   \A c \in 1..Len(SPECIALIST_QUESTIONS) :
      \A g \in 1..Len(SPECIALIST_QUESTIONS[c][2]) :
         \A s \in 1..Len(SPECIALIST_QUESTIONS[c][2][g][2]) :
            DictHas(get_next_question(SPECIALIST_QUESTIONS[c][1],
                                      SPECIALIST_QUESTIONS[c][2][g][1], "Yes", << >>,
                                      SPECIALIST_QUESTIONS[c][2][g][2][s][1]).clipboard,
                    SPECIALIST_QUESTIONS[c][2][g][2][s][1])

\* C11: in a turn that keeps the (category, sub-group) of the session, no
\* filled slot becomes missing again, the answer "Yes" fills the slot that
\* was asked, and when no slot of the pair is missing the controller
\* reports completion instead of a question; every slot of every question
\* bank is filled by the answer "Yes" to its question.  So each accepted
\* answer lowers the number of missing slots, N at most, and at none the
\* intake completes.
C11_QuestionExhaustion ==
   [][TurnOnSamePair
      => LET session == active_sessions[last_call'.user_id]
             before == MissingSlots(session.category, session.subgroup, ClipboardBefore)
             after == MissingSlots(session.category, session.subgroup, ClipboardAfter)
         IN /\ BankFillable
            /\ after \subseteq before
            /\ last_call'.text = "Yes" => session.last_slot \notin after
            /\ after = {} <=> last_call'.locals.slot = None
            /\ after = {} => last_call'.outcome \in {"complete", "error"}]_vars

\* the answer "Yes" has filled the last missing slot of a pair that has
\* slots, and the intake is complete
C11_Witness ==
   /\ last_call.op = "predict"
   /\ last_call.text = "Yes"
   /\ last_call.outcome = "complete"
   /\ ~Called(last_call, "PredictCategory")
   /\ RequiredSlots(last_call.locals.category, last_call.locals.sub_group) # << >>

\* the positions, in the slot list of the (category, sub-group) the request
\* ended on, of the slots that are not keys of its clipboard
MissingPositions(call) ==
   {i \in 1..Len(RequiredSlots(call.locals.category, call.locals.sub_group)) :
       ~DictHas(call.locals.clipboard,
                RequiredSlots(call.locals.category, call.locals.sub_group)[i][1])}

\* C12: a turn in which the logic engine ran asks the first slot, in the
\* order of the slot list of its (category, sub-group), that is not in the
\* clipboard, with one of the questions of that slot; it signals completion
\* if and only if no slot of the list is missing at the end of the turn, and
\* then, unless the INSERT fails, the turn reports completion.
C12_FirstMissingSlotAsked ==
   (last_call.op = "predict" /\ EngineRan(last_call))
   => LET required_slots == RequiredSlots(last_call.locals.category,
                                          last_call.locals.sub_group)
          missing == MissingPositions(last_call)
      IN /\ missing = {} <=> last_call.locals.slot = None
         /\ last_call.outcome = "question" <=> missing # {}
         /\ missing # {}
            => /\ last_call.locals.slot = required_slots[Min(missing)][1]
               /\ \E q \in 1..Len(required_slots[Min(missing)][2]) :
                     last_call.response.message = required_slots[Min(missing)][2][q]
               /\ ~last_call.response.locked
         /\ missing = {}
            => \/ last_call.outcome = "complete" /\ last_call.response.locked
               \/ last_call.outcome = "error" /\ Called(last_call, "INSERT failed")

\* a question for a slot that is not the first of its list: the slots
\* before it are in the clipboard
C12_Witness ==
   /\ last_call.op = "predict"
   /\ last_call.outcome = "question"
   /\ Min(MissingPositions(last_call)) >= 3

\* a record-store call of the request raised
StoreFailed(call) ==
   \/ Called(call, "SELECT failed")
   \/ Called(call, "UPDATE failed")
   \/ Called(call, "INSERT failed")

\* C13: a patient turn in which a record-store call fails (the lock lookup,
\* the relay of a reply to a NEEDS_INFO case, the creation of the case) ends
\* with an error reported to the caller, and after a failed lookup or relay
\* the logic engine does not run.
C13_StoreFailureReported ==
   (last_call.op = "predict" /\ StoreFailed(last_call))
   => /\ last_call.outcome = "error"
      /\ last_call.response.status = 500
      /\ (Called(last_call, "SELECT failed") \/ Called(last_call, "UPDATE failed"))
         => ~EngineRan(last_call)

\* C14: a patient turn in which a record-store call fails leaves the
\* sessions as they were before the turn: no session is created or removed,
\* and category, sub-group, clipboard and last-asked slot of the user's
\* session are unchanged.
C14_SessionUnchangedOnFailure ==
   [][(/\ requests' = requests + 1
       /\ last_call'.op = "predict"
       /\ StoreFailed(last_call'))
      => active_sessions' = active_sessions]_vars

\* C15: in a turn on a session whose sub-group is not DEFAULT and whose
\* category the turn leaves as it was, the sub-group after the turn is the
\* sub-group before it; and a turn calls the router only when the sub-group
\* of the session is DEFAULT or when the turn redirects the category, and
\* a redirect changes the category.
C15_SubGroupSticky ==
   [][TurnOnSession =>
         LET session == active_sessions[last_call'.user_id]
         IN /\ (/\ session.subgroup # "DEFAULT"
                /\ last_call'.locals.category = session.category)
               => /\ last_call'.locals.sub_group = session.subgroup
                  /\ ~Called(last_call', "get_best_subgroup")
            /\ Called(last_call', "get_best_subgroup")
               => \/ session.subgroup = "DEFAULT"
                  \/ Called(last_call', "redirect")
            /\ Called(last_call', "redirect")
               => last_call'.locals.category # session.category]_vars

\* a turn was taken on a session of a sub-group other than DEFAULT, with an
\* utterance that the router maps to another sub-group of the category than
\* the one the session has
C15_Witness ==
   /\ last_call.op = "predict"
   /\ EngineRan(last_call)
   /\ ~Called(last_call, "get_best_subgroup")
   /\ last_call.locals.sub_group # "DEFAULT"
   /\ FactsOf(last_call.text).subgroup[last_call.locals.category]
         \notin {"DEFAULT", last_call.locals.sub_group}

\* two clipboards are equal as dicts: the same keys with the same values
SameDict(a, b) ==
   /\ DictKeys(a) = DictKeys(b)
   /\ \A k \in DictKeys(a) : DictGet(a, k, None) = DictGet(b, k, None)

\* the clipboard get_next_question leaves when called on clipboard with the
\* utterance of call, of which facts are the facts, the category and the
\* sub-group of the turn and last_asked_slot
ExtractedOnce(call, facts, clipboard, last_asked_slot) ==
   NextQuestion(call.locals.category, call.locals.sub_group, facts, call.text,
                clipboard, last_asked_slot).clipboard

\* what C16 says of a turn on session: regular and backfill are the
\* clipboards the regular call and the backfill call leave when called on
\* the clipboard of the session
Idempotent(call, facts, session, regular, backfill) ==
   /\ ExtractedOnce(call, facts, regular, session.last_slot) = regular
   /\ ExtractedOnce(call, facts, backfill, None) = backfill
   /\ SameDict(ExtractedOnce(call, facts, backfill, session.last_slot), regular)
   /\ SameDict(call.locals.clipboard, regular)

IdempotentOn(call, facts, session) ==
   Idempotent(call, facts, session,
      ExtractedOnce(call, facts, session.clipboard, session.last_slot),
      ExtractedOnce(call, facts, session.clipboard, None))

NegationBefore(text, start) ==
   LET first == Max({0, start - 20}) + 1
   IN \E t \in 1..Len(NegationTokens) :
         \E p \in first..start :
            LET q == p + Len(NegationTokens[t]) - 1
            IN /\ q <= start
               /\ SubSeq(text, p, q) = NegationTokens[t]
               /\ p = first \/ ~IsWordChar(CharAt(text, p - 1))
               /\ q = start \/ ~IsWordChar(CharAt(text, q + 1))

\* the rules of the category of call that match its utterance and store
\* their match under slot
RulesStoring(call, slot) ==
   {i \in 1..Len(RULES(call.locals.category)) :
       /\ RULES(call.locals.category)[i].slot = slot
       /\ Search(Lower(call.text), RULES(call.locals.category)[i].pattern) # NoMatch}

\* the matched span of rule i of the category of call, with "no " before it
\* exactly when NegationBefore holds at the start of the match
SpanWithPrefix(call, i) ==
   LET match == Search(Lower(call.text), RULES(call.locals.category)[i].pattern)
   IN (IF NegationBefore(Lower(call.text), match.start) THEN "no " ELSE "")
         \o match.group

FlagWords(rule) == IF rule.flag = NoFlag THEN rule.pattern ELSE rule.flag

\* one of words is mentioned in text without a negation before it
UnnegatedMention(text, words) ==
   \E p \in 1..Len(text) : \E i \in 1..Len(words) :
      /\ MatchAt(text, p, words[i])
      /\ ~NegationBefore(text, p - 1)

\* the rule of the category that stores slot
RuleOf(category, slot) ==
   RULES(category)[CHOOSE i \in 1..Len(RULES(category)) : RULES(category)[i].slot = slot]

\* str.lower() of every known text, in the order of KnownTexts
LowerTable == [i \in 1..Len(KnownTexts) |-> Lower(KnownTexts[i])]

\* str.lower() of a known text
LowerOf(user_text) ==
   LowerTable[Min({i \in 1..Len(KnownTexts) : KnownTexts[i] = user_text})]

\* what C18 says of a call on the lowercased utterance text under the
\* cascade rules, with URGENCY_OVERRIDE before and after the call
FlagRespected(text, rules, before, after) ==
   /\ \A i \in 1..Len(rules) :
         Len(RuleWrites(text, rules[i])) = 2
         => /\ ~NegationBefore(text, Search(text, rules[i].pattern).start)
            /\ UnnegatedMention(text, FlagWords(rules[i]))
   /\ (\A i \in 1..Len(rules) :
          rules[i].level # NoLevel => ~UnnegatedMention(text, FlagWords(rules[i])))
      => after = before

\* C18: a call of get_next_question in which a rule of the category sets
\* URGENCY_OVERRIDE has an utterance where the match of that rule is not
\* negated and the red-flag wording of that rule is mentioned without a
\* negation; a call whose utterance mentions the red-flag wording of no
\* rule of the category without a negation leaves URGENCY_OVERRIDE as it
\* was.
C18_UrgencyOnlyOnUnnegatedFlag ==
   [][(requests' = requests + 1 /\ last_call'.op = "get_next_question") =>
         FlagRespected(LowerOf(last_call'.text), RULES(last_call'.locals.category),
                       UrgencyLevel(active_sessions[last_call'.user_id].clipboard),
                       UrgencyLevel(last_call'.locals.clipboard))]_vars

\* C19: after a call of get_next_question under GASTROINTESTINAL on an
\* utterance that mentions blood, red, black, tar, dark stool or coffee
\* without a negation before the mention, URGENCY_OVERRIDE is CRITICAL.
C19_GastroBleedAlwaysCritical ==
   (/\ last_call.op = "get_next_question"
    /\ last_call.locals.category = "GASTROINTESTINAL"
    /\ UnnegatedMention(LowerOf(last_call.text),
                        RuleOf("GASTROINTESTINAL", "stool_color").pattern))
   => UrgencyLevel(last_call.locals.clipboard) = "CRITICAL"

\* C20: after a call of get_next_question under GENERAL_SYSTEMIC on an
\* utterance that mentions stopped sweating, no sweat, dry skin or confused
\* without a negation before the mention, URGENCY_OVERRIDE is CRITICAL, or
\* HIGH when the bleeding rule, which comes later, has set it.
C20_HeatstrokeAlwaysCritical ==
   (/\ last_call.op = "get_next_question"
    /\ last_call.locals.category = "GENERAL_SYSTEMIC"
    /\ UnnegatedMention(LowerOf(last_call.text),
                        RuleOf("GENERAL_SYSTEMIC", "urine_output").flag))
   => \/ UrgencyLevel(last_call.locals.clipboard) = "CRITICAL"
      \/ /\ SetsUrgency(last_call.text, "GENERAL_SYSTEMIC", "bleeding_check")
         /\ UrgencyLevel(last_call.locals.clipboard) = "HIGH"

\* this step is a call of get_next_question on the session of its user
CallOnSession ==
   /\ requests' = requests + 1
   /\ last_call'.op = "get_next_question"
   /\ last_call'.user_id \in DOMAIN active_sessions

\* api.py:844-857 as the claim words it: the value a negation leaves in the
\* slot
CannedValue(slot) ==
   CASE slot = "severity" -> "mild symptoms"
     [] slot = "triggers" -> "no known triggers"
     [] slot = "sensation" -> "no pain or burning"
     [] slot = "spread" -> "no spread"
     [] OTHER -> None

\* C21: after a call of get_next_question whose last-asked slot is
\* severity, triggers, sensation or spread and whose utterance holds no,
\* nah, not or nope as a word, the value of that slot is "mild symptoms",
\* "no known triggers", "no pain or burning" or "no spread" respectively.
C21_NegationCanned ==
   [][(/\ CallOnSession
       /\ active_sessions[last_call'.user_id].last_slot
             \in {"severity", "triggers", "sensation", "spread"}
       /\ FactsOf(last_call'.text).negation)
      => DictGet(last_call'.locals.clipboard,
                 active_sessions[last_call'.user_id].last_slot, None)
            = CannedValue(active_sessions[last_call'.user_id].last_slot)]_vars

\* C22: after a call of get_next_question whose utterance holds a negation
\* word while the last-asked slot is none of severity, triggers, sensation,
\* spread, or whose utterance holds yes, yeah, yep or sure as a word and no
\* negation word, the value of the last-asked slot is the utterance as it
\* was sent.
C22_LiteralAnswerStored ==
   [][(/\ CallOnSession
       /\ active_sessions[last_call'.user_id].last_slot # None
       /\ \/ /\ FactsOf(last_call'.text).negation
             /\ active_sessions[last_call'.user_id].last_slot
                   \notin {"severity", "triggers", "sensation", "spread"}
          \/ /\ FactsOf(last_call'.text).affirmation
             /\ ~FactsOf(last_call'.text).negation)
      => DictGet(last_call'.locals.clipboard,
                 active_sessions[last_call'.user_id].last_slot, None)
            = last_call'.text]_vars

\* the priority order of the categories of the classifier
ClassifierOrder ==
   << "RESPIRATORY", "NEUROLOGICAL", "DERMATOLOGICAL", "ORTHOPEDIC", "GASTROINTESTINAL" >>

\* a keyword of the classifier rule of category is a substring of text
HasKeywordOf(text, category) ==
   \E k \in 1..Len(DictGet(CATEGORY_RULES, category, << >>)) :
      Contains(text, DictGet(CATEGORY_RULES, category, << >>)[k])

\* category is what C23 says of the lowercased utterance text
ClassifiedByPriority(text, category) ==
   /\ \A i \in 1..Len(ClassifierOrder) :
         category = ClassifierOrder[i]
         <=> /\ HasKeywordOf(text, ClassifierOrder[i])
             /\ \A j \in 1..(i - 1) : ~HasKeywordOf(text, ClassifierOrder[j])
   /\ category = "GENERAL_SYSTEMIC"
      <=> \A i \in 1..Len(ClassifierOrder) : ~HasKeywordOf(text, ClassifierOrder[i])

\* C23: the category the classifier returns is the first of RESPIRATORY,
\* NEUROLOGICAL, DERMATOLOGICAL, ORTHOPEDIC, GASTROINTESTINAL that has a
\* keyword occurring as a substring of the lowercased utterance, and
\* GENERAL_SYSTEMIC exactly when none has.
C23_ClassifierPriority ==
   last_call.op = "PredictCategory"
   => ClassifiedByPriority(LowerOf(last_call.text), last_call.locals.category)

\* the classifier returned NEUROLOGICAL for an utterance that also holds a
\* keyword of DERMATOLOGICAL, a rule later in the order
C23_Witness ==
   /\ last_call.op = "PredictCategory"
   /\ last_call.locals.category = "NEUROLOGICAL"
   /\ HasKeywordOf(LowerOf(last_call.text), "DERMATOLOGICAL")
   /\ ~HasKeywordOf(LowerOf(last_call.text), "RESPIRATORY")

\* this step is a request to /predict
PredictStep ==
   /\ requests' = requests + 1
   /\ last_call'.op = "predict"

\* C24: a request to /predict runs the classifier only when its user has no
\* session and no open case, a request of a user who has a session does not
\* run it, and a user who has no session before the request and has one
\* after it had no open case and the classifier ran.
C24_ClassifiedOncePerSession ==
   [][PredictStep =>
         /\ Called(last_call', "PredictCategory")
            => /\ last_call'.user_id \notin DOMAIN active_sessions
               /\ last_call'.existing_case = NoCase
         /\ last_call'.user_id \in DOMAIN active_sessions
            => ~Called(last_call', "PredictCategory")
         /\ (/\ last_call'.user_id \notin DOMAIN active_sessions
             /\ last_call'.user_id \in DOMAIN active_sessions')
            => /\ last_call'.existing_case = NoCase
               /\ Called(last_call', "PredictCategory")]_vars

\* a keyword of the i-th sub-group of table is a substring of text
HasKeywordAt(text, table, i) ==
   \E k \in 1..Len(table[i][2]) : Contains(text, table[i][2][k])

\* sub_group is what C25 says of the lowercased utterance text and the
\* keyword table of the category
RoutedToFirst(text, table, sub_group) ==
   /\ \A i \in 1..Len(table) :
         sub_group = table[i][1]
         <=> /\ HasKeywordAt(text, table, i)
             /\ \A j \in 1..(i - 1) : ~HasKeywordAt(text, table, j)
   /\ sub_group = "DEFAULT" <=> \A i \in 1..Len(table) : ~HasKeywordAt(text, table, i)

\* C25: the sub-group the router returns is the first sub-group of the
\* keyword table of the category, in the order of the table, that has a
\* keyword occurring as a substring of the lowercased utterance, and
\* DEFAULT exactly when no sub-group has one, which is so for a category
\* without table.
C25_RouterFirstMatch ==
   last_call.op = "get_best_subgroup"
   => /\ RoutedToFirst(LowerOf(last_call.text), KEYWORDS(last_call.locals.category),
                       last_call.locals.sub_group)
      /\ last_call.locals.category \notin Categories
         => last_call.locals.sub_group = "DEFAULT"

\* the router returned a sub-group for an utterance that also holds a
\* keyword of a later sub-group of the table
C25_Witness ==
   /\ last_call.op = "get_best_subgroup"
   /\ \E i \in 1..Len(KEYWORDS(last_call.locals.category)) :
         /\ last_call.locals.sub_group = KEYWORDS(last_call.locals.category)[i][1]
         /\ \E j \in (i + 1)..Len(KEYWORDS(last_call.locals.category)) :
               HasKeywordAt(LowerOf(last_call.text), KEYWORDS(last_call.locals.category), j)

\* the order in which C26 lists the targets of a redirect
RedirectOrder == << "GASTROINTESTINAL", "RESPIRATORY", "NEUROLOGICAL", "DERMATOLOGICAL" >>

\* text holds vocabulary of the redirect target
HasVocabularyOf(text, target) ==
   \E i \in 1..Len(REDIRECT_RULES) :
      /\ REDIRECT_RULES[i].target = target
      /\ \E k \in 1..Len(REDIRECT_RULES[i].pattern) :
            Contains(text, REDIRECT_RULES[i].pattern[k])

\* the targets of which the lowercased utterance text holds vocabulary, as
\* positions of RedirectOrder
TargetsIn(text) == {i \in 1..Len(RedirectOrder) : HasVocabularyOf(text, RedirectOrder[i])}

\* what C26 says of a call under category that returned slot and left
\* clipboard: targets are the targets the utterance holds vocabulary of
RedirectsToFirst(category, slot, clipboard, targets) ==
   IF category = "GENERAL_SYSTEMIC"
   THEN /\ slot = "redirect" <=> targets # {}
        /\ targets # {}
           => DictGet(clipboard, "category_redirect", None) = RedirectOrder[Min(targets)]
   ELSE /\ slot # "redirect"
        /\ ~DictHas(clipboard, "category_redirect")

DefinedSlots(category, sub_group) ==
   DictGet(DictGet(SPECIALIST_QUESTIONS_152 \o SPECIALIST_QUESTIONS, category, << >>),
           sub_group, << >>)

\* the last value the writes assign to key
LastWritten(writes, key) ==
   writes[Max({i \in 1..Len(writes) : writes[i][1] = key})][2]

\* what C27 says of the redirect turn call that leaves the sessions after:
\* target is the redirect target, sub_group the router's result for the
\* utterance and the target, writes the extraction of the utterance under
\* the target, missing the positions of the slots of (target, sub_group)
\* that the clipboard does not hold
RedirectedTo(call, after, target, sub_group, writes, slots, missing) ==
   /\ call.locals.category = target
   /\ call.locals.sub_group = sub_group
   /\ call.user_id \in DOMAIN after
      => /\ after[call.user_id].category = target
         /\ after[call.user_id].subgroup = sub_group
   /\ \A i \in 1..Len(writes) :
         DictGet(call.locals.clipboard, writes[i][1], None) = LastWritten(writes, writes[i][1])
   /\ missing # {}
      => /\ call.outcome = "question"
         /\ call.locals.slot = slots[Min(missing)][1]
         /\ \E q \in 1..Len(slots[Min(missing)][2]) :
               call.response.message = slots[Min(missing)][2][q]
         /\ ~call.response.locked

RedirectedToTarget(call, after, facts, target) ==
   RedirectedTo(call, after, target, facts.subgroup[target],
      facts.extraction[target].writes,
      DefinedSlots(target, facts.subgroup[target]),
      {i \in 1..Len(DefinedSlots(target, facts.subgroup[target])) :
          ~DictHas(call.locals.clipboard, DefinedSlots(target, facts.subgroup[target])[i][1])})

\* C27: a turn whose regular call signals a redirect ends with the category
\* of the session being the redirect target, its sub-group the router's
\* result for the utterance and the target, every fact of the utterance
\* under the target category in the clipboard, and, when a slot of the new
\* (category, sub-group) is unfilled, with the question of the first
\* unfilled slot as the response.
C27_RedirectSameTurn ==
   [][(TurnOnSession /\ Called(last_call', "redirect"))
      => RedirectedToTarget(last_call', active_sessions', FactsOf(last_call'.text),
            RedirectOrder[Min(TargetsIn(LowerOf(last_call'.text)))])]_vars

\* the question bank has no entry for (category, sub_group)
AbsentFromBank(category, sub_group) ==
   \/ ~DictHas(SPECIALIST_QUESTIONS, category)
   \/ ~DictHas(DictGet(SPECIALIST_QUESTIONS, category, << >>), sub_group)

\* C28: a turn whose logic engine ends on a (category, sub-group) that has
\* no entry in the question bank reports completion: the summary is
\* generated, the case created as the newest row of the record store and
\* the response is 200 with locked = true and no question; the one
\* exception is the turn whose INSERT fails, which ends with the error of
\* the record store.
C28_AbsentEntryCompletes ==
   (/\ last_call.op = "predict"
    /\ EngineRan(last_call)
    /\ AbsentFromBank(last_call.locals.category, last_call.locals.sub_group))
   => /\ last_call.locals.slot = None
      /\ \/ /\ last_call.outcome = "complete"
            /\ Called(last_call, "generate_summary")
            /\ Called(last_call, "INSERT")
            /\ last_call.response.status = 200
            /\ last_call.response.locked
            /\ consultations # << >>
            /\ consultations[Len(consultations)].user_id = last_call.user_id
            /\ consultations[Len(consultations)].predicted_category = last_call.locals.category
         \/ /\ last_call.outcome = "error"
            /\ Called(last_call, "INSERT failed")

\* a turn completed at once on a category that the bank does not hold, with
\* nothing in the clipboard
C28_Witness ==
   /\ last_call.op = "predict"
   /\ last_call.outcome = "complete"
   /\ AbsentFromBank(last_call.locals.category, last_call.locals.sub_group)
   /\ last_call.locals.clipboard = << >>
   /\ Called(last_call, "PredictCategory")

\* C29: a request to /predict of a user who has a session, that ends with a
\* question, makes no call to the record store and leaves its rows as they
\* were.
C29_NoMidConversationStoreAccess ==
   [][(/\ PredictStep
       /\ last_call'.user_id \in DOMAIN active_sessions
       /\ last_call'.outcome = "question")
      => /\ \A i \in 1..Len(last_call'.calls) :
               last_call'.calls[i] \notin {"SELECT", "SELECT failed", "UPDATE", "UPDATE failed",
                                           "INSERT", "INSERT failed"}
         /\ consultations' = consultations]_vars

\* the notices a response without question carries
Notices ==
   {"Chat Locked. Waiting for Doctor Review.", "Reply sent to doctor! Please wait."}

\* the message tells the patient that the report was sent
IsCompletionNotice(message) ==
   /\ Len(message) >= Len("Diagnosis Complete.")
   /\ SubSeq(message, 1, Len("Diagnosis Complete.")) = "Diagnosis Complete."

\* the message is a question of slot in the entry of (category, sub_group)
IsQuestionOf(message, category, sub_group, slot) ==
   \E i \in 1..Len(RequiredSlots(category, sub_group)) :
      /\ RequiredSlots(category, sub_group)[i][1] = slot
      /\ \E q \in 1..Len(RequiredSlots(category, sub_group)[i][2]) :
            RequiredSlots(category, sub_group)[i][2][q] = message

\* C30: a request to /predict answered with status 200 returns locked =
\* false exactly when a question was selected; the message is then a
\* question of the selected slot and the last-asked slot of the session
\* after the request is that slot; with locked = true the message is a
\* notice (chat locked, reply sent, diagnosis complete) and not a question.
C30_LockedIffNoQuestion ==
   [][(PredictStep /\ last_call'.response.status = 200)
      => /\ ~last_call'.response.locked <=> last_call'.outcome = "question"
         /\ ~last_call'.response.locked
            => /\ last_call'.locals.slot \notin {None, "redirect"}
               /\ IsQuestionOf(last_call'.response.message, last_call'.locals.category,
                               last_call'.locals.sub_group, last_call'.locals.slot)
               /\ last_call'.user_id \in DOMAIN active_sessions'
               /\ active_sessions'[last_call'.user_id].last_slot = last_call'.locals.slot
         /\ last_call'.response.locked
            => \/ last_call'.response.message \in Notices
               \/ IsCompletionNotice(last_call'.response.message)]_vars

\* a question was returned for another slot than the one asked before
C30_Witness ==
   /\ last_call.op = "predict"
   /\ last_call.response.status = 200
   /\ ~last_call.response.locked
   /\ last_call.user_id \in DOMAIN active_sessions
   /\ active_sessions[last_call.user_id].last_slot = last_call.locals.slot
   /\ ~Called(last_call, "PredictCategory")
   /\ RequiredSlots(last_call.locals.category, last_call.locals.sub_group)[1][1]
         # last_call.locals.slot

\* ------------------------------------------------------------------------
\* Sessions of different patients
\* ------------------------------------------------------------------------

\* the thread takes a step of its request: it starts it or ends it
ActsIn(thread) ==
   \/ thread \notin DOMAIN in_flight /\ thread \in DOMAIN in_flight'
   \/ /\ thread \in DOMAIN in_flight /\ thread \in DOMAIN in_flight'
      /\ ~in_flight[thread].done /\ in_flight'[thread].done

\* the patient of the request the thread handles after the step
PatientOf(thread) == in_flight'[thread].user_id

\* the session store holds for user_id after the step what it held before
SessionKept(user_id) ==
   /\ user_id \in DOMAIN active_sessions'
   /\ active_sessions'[user_id] = active_sessions[user_id]

\* C31: a step of a patient turn for user A (the handler up to the INSERT,
\* or the rest of it) leaves the session of every other user B as it was:
\* category, sub-group, clipboard and last-asked slot, in every
\* interleaving of the requests of two threads
C31_SessionsIndependent ==
   [][\A thread \in Threads :
         ActsIn(thread) =>
            \A user_id \in DOMAIN active_sessions :
               user_id # PatientOf(thread) => SessionKept(user_id)]_vars

\* user 2 holds a session with answers in it while the request of user 1,
\* started after it, has gone through to the end of the handler
C31_Witness ==
   /\ 2 \in DOMAIN active_sessions
   /\ active_sessions[2].clipboard # << >>
   /\ active_sessions[2].last_slot # None
   /\ \E thread \in DOMAIN in_flight :
         /\ in_flight[thread].user_id = 1
         /\ in_flight[thread].done
         /\ in_flight[thread].begun.outcome = "complete"
         /\ Len(consultations) = 1

\* ------------------------------------------------------------------------
\* The logic engine as a function of the session and the utterance
\* ------------------------------------------------------------------------

\* engine is what the logic engine makes of the session and the utterance
\* alone: the request left that category, sub-group, clipboard and slot,
\* and went on to completion exactly when no slot was selected
SameEngineResult(call, engine) ==
   /\ call.locals.category = engine.session.category
   /\ call.locals.sub_group = engine.session.subgroup
   /\ call.locals.clipboard = engine.session.clipboard
   /\ call.locals.slot = engine.slot
   /\ (call.outcome = "question") = (engine.slot # None)
   /\ call.outcome \in {"question", "complete", "error"}

\* the session the logic engine of a request runs on: the user's session,
\* or the one created for the utterance
SessionOf(sessions, user_id, text) ==
   IF user_id \in DOMAIN sessions THEN sessions[user_id]
   ELSE NewSession(FactsOf(text).category)

\* the logic engine of the request met none of its faults: the marker
\* category_redirect is in the clipboard when the regular call signalled a
\* redirect and names the category switched to, one with a keyword table,
\* and a selected slot has a question to draw from, the one sent
NoEngineFault(call) ==
   /\ Called(call, "redirect") =>
         /\ DictHas(call.locals.clipboard, "category_redirect")
         /\ DictGet(call.locals.clipboard, "category_redirect", None) = call.locals.category
         /\ call.locals.category \in Categories
   /\ call.locals.category \in Categories
   /\ call.locals.sub_group # None
   /\ call.locals.slot # "redirect"
   /\ call.outcome = "question" =>
         IsQuestionOf(call.response.message, call.locals.category,
                      call.locals.sub_group, call.locals.slot)

ClaimedReserved == {"duration", "severity", "category_redirect", "URGENCY_OVERRIDE"}

\* the categories that have a template of their own (api.py:1302-1379)
OwnTemplate ==
   {"ORTHOPEDIC", "GASTROINTESTINAL", "RESPIRATORY", "NEUROLOGICAL", "DERMATOLOGICAL"}

\* the values of the entries of the clipboard that are not reserved, in
\* the order of the clipboard
Unreserved(clipboard) ==
   LET listed == SelectSeq(clipboard, LAMBDA entry : entry[1] \notin ClaimedReserved)
   IN [i \in 1..Len(listed) |-> listed[i][2]]

\* summary is the generic sentence that lists values
GenericSentence(summary, values, clipboard) ==
   summary = "Patient reports "
             \o (IF values = << >> THEN "general symptoms" ELSE Join(values, ", ", 1))
             \o " for " \o DictGet(clipboard, "duration", "unknown duration")
             \o " with " \o DictGet(clipboard, "severity", "undetermined severity") \o "."

\* the value under key, if there is one, does not occur in summary
Unlisted(summary, clipboard, key) ==
   DictHas(clipboard, key) => ~Contains(summary, DictGet(clipboard, key, ""))

\* C33: generate_summary leaves the clipboard as it was, and for
\* GENERAL_SYSTEMIC or a category without a template the summary lists the
\* value of every clipboard entry except those under duration, severity,
\* category_redirect and URGENCY_OVERRIDE, joined with commas; the redirect
\* marker and the urgency level do not occur in it
C33_GenericSummaryListsUnreserved ==
   [][requests' = requests + 1 /\ last_call'.op = "generate_summary" =>
         /\ active_sessions' = active_sessions
         /\ last_call'.locals.category \notin OwnTemplate =>
               /\ GenericSentence(last_call'.response.message,
                                  Unreserved(active_sessions[last_call'.user_id].clipboard),
                                  active_sessions[last_call'.user_id].clipboard)
               /\ Unlisted(last_call'.response.message,
                           active_sessions[last_call'.user_id].clipboard, "category_redirect")
               /\ Unlisted(last_call'.response.message,
                           active_sessions[last_call'.user_id].clipboard, "URGENCY_OVERRIDE")]_vars

\* the generic summary was made of a clipboard that holds a reserved key,
\* the urgency level or the redirect marker, and an entry to list
SummarisedWith(key, final_category) ==
   /\ last_call.op = "generate_summary"
   /\ last_call.locals.category = final_category
   /\ DictHas(last_call.locals.clipboard, key)
   /\ Unreserved(last_call.locals.clipboard) # << >>
   /\ last_call.locals.clipboard = active_sessions[last_call.user_id].clipboard

C33_Witness == SummarisedWith("URGENCY_OVERRIDE", "GENERAL_SYSTEMIC")

MarkerSummarised == SummarisedWith("category_redirect", OtherCategory)

\* ------------------------------------------------------------------------
\* The cases of the record store
\* ------------------------------------------------------------------------

\* the rows of user_id that are open
OpenCases(user_id) ==
   {i \in 1..Len(consultations) :
       /\ consultations[i].user_id = user_id
       /\ consultations[i].status \in {"PENDING", "NEEDS_INFO"}}

\* C34: at any time every user has at most one consultation record whose
\* status is PENDING or NEEDS_INFO, whatever patient turns and doctor
\* replies were handled
C34_AtMostOneOpenCase ==
   \A user_id \in UserIds : Cardinality(OpenCases(user_id)) <= 1

\* the status of case i changes in this step
StatusChanges(i) ==
   /\ i \in 1..Len(consultations)
   /\ i \in 1..Len(consultations')
   /\ consultations'[i].status # consultations[i].status

\* C35: a case is created with status PENDING only; a status becomes
\* NEEDS_INFO or COMPLETED only by a doctor reply; it becomes PENDING again
\* only from NEEDS_INFO and only by a patient turn; the status of a
\* COMPLETED case never changes
C35_CaseLifecycle ==
   [][\A i \in 1..Len(consultations') :
         /\ i > Len(consultations) => consultations'[i].status = "PENDING"
         /\ StatusChanges(i) =>
               /\ consultations[i].status # "COMPLETED"
               /\ consultations'[i].status \in {"NEEDS_INFO", "COMPLETED"}
                     => last_call'.op = "doctor_reply"
               /\ consultations'[i].status = "PENDING"
                     => /\ consultations[i].status = "NEEDS_INFO"
                        /\ last_call'.op = "predict"
               /\ consultations'[i].status \in {"PENDING", "NEEDS_INFO", "COMPLETED"}]_vars

\* ------------------------------------------------------------------------
\* The category of a session
\* ------------------------------------------------------------------------

\* the categories a session is redirected to
RedirectTargets == {"GASTROINTESTINAL", "RESPIRATORY", "NEUROLOGICAL", "DERMATOLOGICAL"}

\* the number of redirects the main loop handled in the request
Redirects(call) == Cardinality({i \in 1..Len(call.calls) : call.calls[i] = "redirect"})

\* the category goes from before to after by one redirect out of
\* GENERAL_SYSTEMIC, or stays
OneRedirect(call, before, after) ==
   /\ Redirects(call) <= 1
   /\ (before # after) = (Redirects(call) = 1)
   /\ before # after => before = "GENERAL_SYSTEMIC" /\ after \in RedirectTargets

HasYesNoWord(facts) == facts.negation \/ facts.affirmation

\* the turn answered the question for asked: the slot is in the clipboard
\* the engine leaves and in the clipboard of the session, and is not the
\* slot asked next
Answered(call, asked, after) ==
   /\ DictHas(call.locals.clipboard, asked)
   /\ call.locals.slot # asked
   /\ call.user_id \in DOMAIN after
         => /\ DictHas(after[call.user_id].clipboard, asked)
            /\ call.outcome = "question" => after[call.user_id].last_slot # asked

\* C37: when the session's last-asked slot is S and the utterance of the
\* turn holds an affirmation or a negation word, S is in the clipboard
\* after the engine has run on the turn and the slot asked next, if any, is
\* not S, also when the turn changes the sub-group or redirects the
\* category
C37_AskedSlotAnswered ==
   [][TurnOnSession
      /\ active_sessions[last_call'.user_id].last_slot # None
      /\ HasYesNoWord(FactsOf(last_call'.text))
      => Answered(last_call', active_sessions[last_call'.user_id].last_slot,
                  active_sessions')]_vars

\* a reply with a yes/no word to an asked question has changed the
\* sub-group of the session (redirected tells whether by a redirect of the
\* category) and another question was asked
AnsweredOnTheMove(redirected) ==
   /\ last_call.op = "predict"
   /\ requests = 1
   /\ HasYesNoWord(FactsOf(last_call.text))
   /\ Called(last_call, "redirect") = redirected
   /\ Called(last_call, "get_best_subgroup")
   /\ last_call.locals.sub_group # "DEFAULT"
   /\ last_call.outcome = "question"
   /\ Len(last_call.locals.clipboard) >= 2

C37_Witness == AnsweredOnTheMove(TRUE)

SubGroupChangedOnAnswer == AnsweredOnTheMove(FALSE)

\* ------------------------------------------------------------------------
\* The relay of a reply to a NEEDS_INFO case
\* ------------------------------------------------------------------------

\* this step is a patient turn that relayed the reply to the case the lock
\* check returned
RelayStep ==
   /\ PredictStep
   /\ last_call'.outcome = "replied"
   /\ LockCheckFound(last_call', "NEEDS_INFO")

\* row i keeps what the intake wrote
IntakeKept(i) ==
   /\ consultations'[i].ai_summary = consultations[i].ai_summary
   /\ consultations'[i].predicted_category = consultations[i].predicted_category
   /\ consultations'[i].urgency_score = consultations[i].urgency_score
   /\ consultations'[i].doctor_assigned = consultations[i].doctor_assigned

\* C38: a patient turn that relays a reply to a NEEDS_INFO case sets that
\* case's status to PENDING and leaves its intake summary, predicted
\* category, urgency and assigned doctor as they were; the other cases do
\* not change
C38_RelayKeepsIntake ==
   [][RelayStep =>
         /\ Len(consultations') = Len(consultations)
         /\ \A i \in 1..Len(consultations) :
               IF consultations[i].case_id = last_call'.existing_case.case_id
               THEN consultations'[i].status = "PENDING" /\ IntakeKept(i)
               ELSE consultations'[i] = consultations[i]]_vars

\* ------------------------------------------------------------------------
\* The yes/no handler
\* ------------------------------------------------------------------------

\* a rule of the call other than the yes/no handler assigns key
WrittenByRule(writes, key) == \E i \in 1..Len(writes) : writes[i][1] = key

\* the value a negation leaves in slot: the canned value of severity,
\* triggers, sensation and spread, the utterance for every other slot
NegationValue(slot, user_text) ==
   IF CannedValue(slot) # None THEN CannedValue(slot) ELSE user_text

\* the utterance of the call holds a negation word and an affirmation
\* word, and asked is stored as a negation stores it, unless a rule that
\* runs after the yes/no handler assigns asked
NegationWins(facts, user_text, asked, writes, after) ==
   (facts.negation /\ facts.affirmation /\ ~WrittenByRule(writes, asked))
   => DictGet(after, asked, None) = NegationValue(asked, user_text)

\* every entry of after that is not in before as it is was assigned by a
\* rule of the call other than the yes/no handler
OnlyRulesWrote(writes, before, after) ==
   \A i \in 1..Len(after) :
      DictGet(before, after[i][1], None) # after[i][2]
      => /\ WrittenByRule(writes, after[i][1])
         /\ LastWritten(writes, after[i][1]) = after[i][2]

\* what C39 says of a call on session with the extraction writes of its
\* utterance
ResolvedAsClaimed(call, session, facts, writes) ==
   IF session.last_slot # None
   THEN NegationWins(facts, call.text, session.last_slot, writes, call.locals.clipboard)
   ELSE OnlyRulesWrote(writes, session.clipboard, call.locals.clipboard)

\* C39: in a call of get_next_question whose utterance holds both a
\* negation word (no, nah, not, nope) and an affirmation word (yes, yeah,
\* yep, sure) the yes/no handler stores the last-asked slot as a negation
\* does (the canned value for severity, triggers, sensation and spread),
\* and in a call without last-asked slot the handler writes nothing
C39_NegationBeforeAffirmation ==
   [][CallOnSession =>
         ResolvedAsClaimed(last_call', active_sessions[last_call'.user_id],
            FactsOf(last_call'.text),
            FactsOf(last_call'.text).extraction[
               active_sessions[last_call'.user_id].category].writes)]_vars

\* an utterance with both words has answered a question for severity,
\* triggers, sensation or spread and left the canned value
C39_Witness ==
   /\ last_call.op = "get_next_question"
   /\ requests = 1
   /\ FactsOf(last_call.text).negation
   /\ FactsOf(last_call.text).affirmation
   /\ \E slot \in {"severity", "triggers", "sensation", "spread"} :
         /\ DictGet(last_call.locals.clipboard, slot, None) = CannedValue(slot)
         /\ \A i \in 1..Len(last_call.locals.clipboard) :
               last_call.locals.clipboard[i][1] # slot
               => last_call.locals.clipboard[i][2] = "Yes"

\* an utterance with a yes/no word was handled without last-asked slot and
\* nothing was stored
UnaskedWritesNothing ==
   /\ last_call.op = "get_next_question"
   /\ requests = 1
   /\ HasYesNoWord(FactsOf(last_call.text))
   /\ last_call.locals.clipboard = << >>
   /\ 1 \in DOMAIN active_sessions
   /\ active_sessions[1].subgroup = "DEFAULT"
   /\ last_call.locals.slot = "assessment"
====
